---- MODULE Spec2Model ----
(***************************************************************************)
(* Streaming compression client of pkg/compressor: NewClient, Compress,    *)
(* Decompress, the io.Pipe that couples each background task to its        *)
(* reader, the context-aware reader and writer wrapped around the pipe,    *)
(* and the callers of the README tests and of Cli.runAction, which drain   *)
(* the output stream and then receive from the error channel.              *)
(***************************************************************************)
EXTENDS Integers, Sequences, FiniteSets, TLC

\* ------------------------------------------------------------------ bounds

\* Longest literal input given to a call.
MaxLen == 2
\* Input bytes are 1..NBytes.
NBytes == 2
\* Bytes one Read of an input or of a pipe returns at most.
RdBuf == 1
\* Encoded bytes the gzip writer holds before it writes them to its sink.
GzBuf == 2
\* Round trips run concurrently on the shared client.
NTrips == 2
\* Most configurations given to one NewClient call.
MaxConfigs == 2
\* Longest Format asked for that is made of FormatChars.
MaxFormatLen == 2

\* ------------------------------------------------------- bytes and errors

Bytes == 1..NBytes

RECURSIVE SeqsUpTo(_)
SeqsUpTo(n) ==
    IF n = 0 THEN {<<>>}
    ELSE LET S == SeqsUpTo(n - 1)
         IN  S \cup {Append(s, b) : s \in {t \in S : Len(t) = n - 1}, b \in Bytes}

Take(s, n) == SubSeq(s, 1, IF n < Len(s) THEN n ELSE Len(s))
Drop(s, n) == SubSeq(s, (IF n < Len(s) THEN n ELSE Len(s)) + 1, Len(s))

\* An error is the chain of its messages, outermost first: fmt.Errorf("m: %w", e)
\* puts m in front of e. The nil error is the empty chain.
NilErr == <<>>
Wrap(msg, e) == <<msg>> \o e
\* errors.Is(e, target) for a target that is a leaf error value.
ErrorsIs(e, target) == e # NilErr /\ e[Len(e)] = target

ErrCanceled == "context canceled"
ErrReading == "reading error"
ErrTest == "test error"
ErrGzHeader == "gzip: invalid header"
ErrGzChecksum == "gzip: invalid checksum"
ErrFlate == "flate: corrupt input"
ErrEOF == "EOF"
ErrClosedPipe == "io: read/write on closed pipe"
ErrUnexpectedEOF == "unexpected EOF"

\* ------------------------------------------------------------ gzip format

\* The stream gzip.Writer produces: a header, the deflate encoding of the data,
\* the end of the deflate stream, and a trailer holding a checksum and the size
\* of the data. Every element is one symbol of the stream.
GzHeader == 100
GzFinal == 101
GzEncBase == 10
GzTrailerBase == 200
\* CRC-32 and ISIZE are kept modulo their width.
CrcMod == 3
SizeMod == 4

GzEnc(b) == GzEncBase + b
GzIsEnc(t) == t \in {GzEnc(b) : b \in Bytes}
GzDec(t) == t - GzEncBase
GzTrailer(crc, size) == GzTrailerBase + crc * SizeMod + size
CrcUpdate(crc, b) == (crc * 2 + b) % CrcMod
SizeUpdate(size) == (size + 1) % SizeMod

RECURSIVE CrcOf(_)
CrcOf(d) == IF d = <<>> THEN 0 ELSE CrcUpdate(CrcOf(SubSeq(d, 1, Len(d) - 1)), d[Len(d)])

GzEncSeq(d) == [n \in 1..Len(d) |-> GzEnc(d[n])]

\* The whole gzip stream of d.
GzipBytes(d) ==
    <<GzHeader>> \o GzEncSeq(d) \o <<GzFinal, GzTrailer(CrcOf(d), Len(d) % SizeMod)>>

\* --------------------------------------------------------------- NewClient

\* A Format is a Go string: the sequence of its characters.
FormatGzip == <<"g", "z", "i", "p">>
FormatNoop == <<"n", "o", "o", "p">>
DefaultFormat == FormatGzip

\* Mutant of AvailableFormats: it lists a format NewClient knows nothing of.
AvailableFormatsListsUnknown == <<FormatGzip, FormatNoop, <<"f">>>>

AvailableFormats == <<FormatGzip, FormatNoop>>

\* Mutant of gzipConfig: it returns the constructors that pass the bytes through.
gzipConfigPassesThrough ==
    [Format |-> <<>>, Compressor |-> "noop", Decompressor |-> "noop"]

\* A constructor is named by what it builds; "nil" is the nil func.
gzipConfig == [Format |-> <<>>, Compressor |-> "gzip", Decompressor |-> "gzip"]

\* Mutant of noopConfig: its compressor is the gzip writer.
noopConfigCompresses == [Format |-> <<>>, Compressor |-> "gzip", Decompressor |-> "noop"]

noopConfig == [Format |-> <<>>, Compressor |-> "noop", Decompressor |-> "noop"]

\* A message of an error of NewClient: the text given to Errorf and what its
\* verb %q, if it has one, prints.
Msg(text) == [text |-> text, arg |-> <<>>]

\* The nil Client.
NilClient == [nil |-> TRUE]

validate(c) ==
    IF c.Decompressor = "nil" THEN <<Msg("decompressor must be configured")>>
    ELSE IF c.Compressor = "nil" THEN <<Msg("compressor must be configured")>>
    ELSE NilErr

\* What the verb %q prints for a string: the string between double quotes, with a
\* backslash put before every double quote and every backslash in it.
QuoteChar(c) == IF c \in {"\"", "\\"} THEN <<"\\", c>> ELSE <<c>>

RECURSIVE QuoteChars(_)
QuoteChars(s) == IF s = <<>> THEN <<>> ELSE QuoteChar(Head(s)) \o QuoteChars(Tail(s))

\* Mutant of Quote: the Format is not passed to Errorf, which prints the verb as
\* missing its operand.
QuoteMissingOperand(s) == <<"%", "!", "q", "(", "M", "I", "S", "S", "I", "N", "G", ")">>

Quote(s) == <<"\"">> \o QuoteChars(s) \o <<"\"">>

\* The text before the verb in "unknown compression format %q".
UnknownFormatText ==
    <<"u", "n", "k", "n", "o", "w", "n", " ",
      "c", "o", "m", "p", "r", "e", "s", "s", "i", "o", "n", " ",
      "f", "o", "r", "m", "a", "t", " ">>

\* fmt.Errorf("unknown compression format %q", format).
UnknownFormat(format) ==
    [text |-> "unknown compression format %q", arg |-> Quote(format)]

\* The characters of the message of that error.
ErrorText(m) == UnknownFormatText \o m.arg

\* Mutant of resolve: a configuration with one override set is completed from the
\* built-in codec of its Format instead of being refused.
resolveFillsMissingHalf(given) ==
    LET base == IF given.Format = FormatNoop THEN noopConfig ELSE gzipConfig
        builtin == given.Decompressor = "nil" /\ given.Compressor = "nil"
        unknown == builtin /\ given.Format \notin {FormatGzip, <<>>, FormatNoop}
    IN  IF unknown
        THEN [client |-> NilClient,
              err |-> <<UnknownFormat(given.Format)>>]
        ELSE [client |->
                [compressor |-> IF given.Compressor = "nil"
                                THEN base.Compressor ELSE given.Compressor,
                 decompressor |-> IF given.Decompressor = "nil"
                                  THEN base.Decompressor ELSE given.Decompressor],
              err |-> NilErr]

\* Mutant of resolve: the Format is looked up first, whether or not the overrides
\* are set, so overrides under a Format that is not built in are refused.
resolveLooksUpFormatFirst(given) ==
    IF given.Format \notin {FormatGzip, <<>>, FormatNoop}
    THEN [client |-> NilClient,
          err |-> <<UnknownFormat(given.Format)>>]
    ELSE LET builtin == given.Decompressor = "nil" /\ given.Compressor = "nil"
             config == IF ~builtin THEN given
                       ELSE IF given.Format = FormatNoop THEN noopConfig
                       ELSE gzipConfig
         IN  IF validate(config) # NilErr
             THEN [client |-> NilClient,
                   err |-> Wrap(Msg("validating configuration"), validate(config))]
             ELSE [client |-> [compressor |-> config.Compressor,
                               decompressor |-> config.Decompressor],
                   err |-> NilErr]

\* NewClient from the configuration it settled on: the built-in codec of the
\* Format when no override is set, the validation, the client.
resolve(given) ==
    LET builtin == given.Decompressor = "nil" /\ given.Compressor = "nil"
        unknown == builtin /\ given.Format \notin {FormatGzip, <<>>, FormatNoop}
        config == IF ~builtin THEN given
                  ELSE IF given.Format = FormatNoop THEN noopConfig
                  ELSE gzipConfig
    IN  IF unknown
        THEN [client |-> NilClient,
              err |-> <<UnknownFormat(given.Format)>>]
        ELSE IF validate(config) # NilErr
        THEN [client |-> NilClient,
              err |-> Wrap(Msg("validating configuration"), validate(config))]
        ELSE [client |-> [compressor |-> config.Compressor,
                          decompressor |-> config.Decompressor],
              err |-> NilErr]

\* Mutant of NewClient: of several configurations the first is used.
NewClientTakesFirst(configs) ==
    resolve(IF Len(configs) >= 1 THEN configs[1] ELSE gzipConfig)

\* NewClient(configs...): [client, err]; client is nil when err is not nil.
NewClient(configs) ==
    IF Len(configs) > 1
    THEN [client |-> NilClient, err |-> <<Msg("only one config can be passed")>>]
    ELSE resolve(IF Len(configs) = 1 THEN configs[1] ELSE gzipConfig)

\* The format of the README test, and the characters of the other formats asked for.
BadFormat == <<"b", "a", "d", "F", "o", "r", "m", "a", "t">>
FormatChars == {"f", "\"", "\\"}

RECURSIVE StringsUpTo(_)
StringsUpTo(n) ==
    IF n = 0 THEN {<<>>}
    ELSE LET S == StringsUpTo(n - 1)
         IN  S \cup {Append(s, c) : s \in {t \in S : Len(t) = n - 1}, c \in FormatChars}

\* The configurations given to NewClient: by the README tests, which set a Format,
\* both overrides or one of them, and by Cli.runAction, which sets the Format the
\* user asked for.
Formats == {FormatGzip, FormatNoop, BadFormat} \cup StringsUpTo(MaxFormatLen)
Compressors == {"nil", "noop", "failclose"}
Decompressors == {"nil", "noop", "failclose"}
Configs == [Format : Formats, Compressor : Compressors, Decompressor : Decompressors]

\* The arguments of a NewClient call: none, one configuration, or more; the
\* configurations after the first are of the zero Format.
ConfigLists ==
    LET More == {c \in Configs : c.Format = <<>>}
        RECURSIVE Lists(_)
        Lists(n) ==
            IF n = 0 THEN {<<>>}
            ELSE IF n = 1 THEN {<<>>} \cup {<<c>> : c \in Configs}
            ELSE Lists(n - 1) \cup
                 {Append(l, c) : l \in {m \in Lists(n - 1) : Len(m) = n - 1}, c \in More}
    IN  Lists(MaxConfigs)


\* ------------------------------------------------------------------ state

VARIABLES
    proc,       \* the process of main: the signals it got, its exit code
    tt,         \* the Testing given to ContextWithDeadline, and the context returned
    cli,        \* the Cli that Run is called on, and where Run is
    configs,    \* the configurations NewClient is called with
    nerr,       \* the error NewClient returned
    client,     \* the client NewClient returned: its two constructors
    sc,         \* the calls made: shape, input data, how the input ends, the caller
    cancelled,  \* whether the context passed to the calls is done
    inrem,      \* per round trip: what is left of the literal input
    cpc,        \* per round trip: where the calling goroutine is
    out,        \* per round trip: the bytes the caller has read from the output
    rerr,       \* per round trip: the error the caller's read returned
    got,        \* per call: the values the caller received from errCh
    returned,   \* per call: whether Compress / Decompress has returned
    ctorfail,   \* per call: whether the decompressor constructor failed
    bg,         \* per call: where the background goroutine is
    ret,        \* per call: where it continues when its pipe write returns
    cur,        \* per call: the bytes handed to compressor.Write
    val,        \* per call: the value the goroutine's function returns
    zw,         \* per call: the gzip.Writer
    zr,         \* per call: the gzip.Reader
    pipe,       \* per call: the io.Pipe and the context reader and writer on it
    slot,       \* per call: the contents of errCh
    ndep,       \* per call: how many values were sent on errCh
    drain,      \* per call: how io.Copy ended
    clo         \* per call: how closing the transform ended

vars == <<proc, tt, cli, configs, nerr, client, sc, cancelled, inrem, cpc, out, rerr, got, returned, ctorfail,
          bg, ret, cur, val, zw, zr, pipe, slot, ndep, drain, clo>>

Trips == 1..NTrips
Ops == 1..(2 * NTrips)

\* Round trip k makes call Comp(k), a Compress, and call Decomp(k), a Decompress.
Comp(k) == 2 * k - 1
Decomp(k) == 2 * k
TripOf(i) == (i + 1) \div 2
IsCompress(i) == i % 2 = 1

HasComp(k) == sc.shape \in {"compress", "roundtrip", "concurrent"}
HasDecomp(k) == sc.shape \in {"decompress", "roundtrip", "concurrent"}
ActiveTrips == IF sc.shape = "concurrent" THEN Trips ELSE {1}
ActiveOps ==
    {i \in Ops : /\ TripOf(i) \in ActiveTrips
                 /\ IF IsCompress(i) THEN HasComp(TripOf(i)) ELSE HasDecomp(TripOf(i))}

\* The call whose output stream the caller of round trip k reads.
OutOp(k) == IF HasDecomp(k) THEN Decomp(k) ELSE Comp(k)
\* A Decompress reads the output of the Compress before it, if there is one.
FromPipe(i) == ~IsCompress(i) /\ HasComp(TripOf(i))
Up(i) == i - 1

\* Mutant of SinkOf: every Compress writes to one pipe, shared by the calls.
SharedSink(i) == IF IsCompress(i) THEN 1 ELSE i

\* Each call creates its own pipe: the sink of call i is the write end of pipe i.
SinkOf(i) == i

\* What an input that never ends keeps yielding.
Rep(k) == IF sc.enc = "gz" THEN GzEnc(1) ELSE 1

Literal(d, enc) ==
    CASE enc = "raw" -> d
      [] enc = "gz" -> GzipBytes(d)
      [] enc = "trunc" -> SubSeq(GzipBytes(d), 1, Len(d) + 2)
      [] enc = "gzinf" -> <<GzHeader>>

NotEnded == [st |-> "none", err |-> NilErr]
EndedOk == [st |-> "ok", err |-> NilErr]
EndedErr(e) == [st |-> "err", err |-> e]

\* No Cli: the calls are made by a test of the package.
NoCli == [pc |-> "none"]
\* No process of main either, and no call of ContextWithDeadline.
NoProc == [pc |-> "none"]
NoTesting == [pc |-> "none"]

EmptyPipe ==
    [wr |-> <<>>, busy |-> FALSE, closed |-> FALSE, lrd |-> FALSE,
     wlen |-> 0, lead |-> 0, ncl |-> 0, cres |-> NilErr]
NewGzWriter == [hdr |-> FALSE, buf |-> <<>>, crc |-> 0, size |-> 0]
NewGzReader == [buf |-> <<>>, st |-> "hdr", crc |-> 0, size |-> 0]

\* The clients the calls run on: NewClient's result for a configuration it accepts.
ValidConfigs == {c \in Configs : NewClient(<<c>>).err = NilErr}

\* The arguments the README tests give to the NewClient calls that succeed.
TestConfigLists ==
    {<<>>} \cup
    {<<c>> : c \in {d \in ValidConfigs :
                       /\ d.Format \in {<<>>, FormatGzip, FormatNoop}
                       /\ d.Compressor # "nil" => d.Format = <<>>}}

\* The data of round trip k when the round trips run concurrently: the trips
\* differ in length and in bytes.
ConcData(k) == [n \in 1..(((k - 1) % MaxLen) + 1) |-> ((k + n) % NBytes) + 1]

\* shape: one Compress, one Decompress, a Compress whose output a Decompress reads,
\* or NTrips such round trips at once; tail: the input ends, fails, or never ends;
\* mode: the caller drains the output and then receives from errCh, or only
\* receives; enc: what a lone Decompress is given.
DataChoices ==
    {[k \in Trips |-> IF k = 1 THEN d ELSE <<>>] : d \in SeqsUpTo(MaxLen)}
        \cup {[k \in Trips |-> ConcData(k)]}

Scenarios ==
    {s \in [shape : {"compress", "decompress", "roundtrip", "concurrent"},
            data : DataChoices,
            tail : {"eof", "err", "inf"},
            mode : {"drain", "none"},
            enc : {"raw", "gz", "trunc"}] :
        /\ s.shape # "concurrent" => \A k \in Trips : k # 1 => s.data[k] = <<>>
        /\ s.shape = "concurrent" =>
              /\ s.tail = "eof" /\ s.mode = "drain"
              /\ \A k \in Trips : s.data[k] = ConcData(k)
        /\ s.shape # "decompress" => s.enc = "raw"
        /\ s.tail = "inf" => s.data[1] = <<>> /\ s.enc # "trunc"}

\* The calls run on the client of a NewClient call that returned no error: the
\* call without arguments, a built-in Format, or both overrides and no Format.
Init ==
    /\ proc = NoProc
    /\ tt = NoTesting
    /\ cli = NoCli
    /\ configs \in TestConfigLists
    /\ client = NewClient(configs).client
    /\ nerr = NewClient(configs).err
    /\ sc \in Scenarios
    /\ sc.shape = "concurrent" =>
          configs \in {<<>>, <<[Format |-> FormatNoop, Compressor |-> "nil",
                               Decompressor |-> "nil"]>>}
    /\ cancelled = FALSE
    /\ inrem = [k \in Trips |->
                  IF sc.tail = "inf" /\ sc.enc = "gz" THEN Literal(<<>>, "gzinf")
                  ELSE Literal(sc.data[k], sc.enc)]
    /\ cpc = [k \in Trips |->
                IF k \notin ActiveTrips THEN "done"
                ELSE IF HasComp(k) THEN "start" ELSE "calld"]
    /\ out = [k \in Trips |-> <<>>]
    /\ rerr = [k \in Trips |-> NilErr]
    /\ got = [i \in Ops |-> <<>>]
    /\ returned = [i \in Ops |-> FALSE]
    /\ ctorfail = [i \in Ops |-> FALSE]
    /\ bg = [i \in Ops |-> "idle"]
    /\ ret = [i \in Ops |-> "rd"]
    /\ cur = [i \in Ops |-> <<>>]
    /\ val = [i \in Ops |-> NilErr]
    /\ zw = [i \in Ops |-> NewGzWriter]
    /\ zr = [i \in Ops |-> NewGzReader]
    /\ pipe = [i \in Ops |-> EmptyPipe]
    /\ slot = [i \in Ops |-> <<>>]
    /\ ndep = [i \in Ops |-> 0]
    /\ drain = [i \in Ops |-> NotEnded]
    /\ clo = [i \in Ops |-> NotEnded]


\* ------------------------------------------------------- pipe and streams

\* Mutant of PipeClose: a Close of a write end that is closed already returns an
\* error, as the Close of a file does.
PipeCloseOnce(pp, j) ==
    [pp EXCEPT ![j].closed = TRUE, ![j].ncl = @ + 1,
               ![j].cres = IF pp[j].closed THEN <<ErrClosedPipe>> ELSE NilErr]

\* Close of the context write closer, which is Close of the io.PipeWriter under
\* it: the pipe is closed, the call is counted, and nil is returned every time.
PipeClose(pp, j) ==
    [pp EXCEPT ![j].closed = TRUE, ![j].ncl = @ + 1, ![j].cres = NilErr]

\* Mutant of PipeResults: the read end is returned as it is, without the context
\* reader, so the context's error is never a result of a Read.
PipeResultsNoContext(j) ==
    LET p == pipe[j]
    IN  (IF p.closed THEN {[res |-> "eof", chunk |-> <<>>]} ELSE {})
        \cup (IF ~p.closed /\ p.busy /\ p.wr # <<>>
              THEN {[res |-> "data", chunk |-> Take(p.wr, RdBuf)]} ELSE {})

\* What a Read on the context reader of pipe j can return now: the bytes of the
\* pending write that fit the buffer, end of stream once the write end is closed,
\* or the context's error once the context is done. No result: the Read blocks.
PipeResults(j) ==
    LET p == pipe[j]
    IN  (IF p.closed THEN {[res |-> "eof", chunk |-> <<>>]} ELSE {})
        \cup (IF ~p.closed /\ p.busy /\ p.wr # <<>>
              THEN {[res |-> "data", chunk |-> Take(p.wr, RdBuf)]} ELSE {})
        \cup (IF cancelled THEN {[res |-> "ctx", chunk |-> <<>>]} ELSE {})

\* The pipes after a Read of pipe j returned r. A Read the context cut short leaves
\* its goroutine reading the pipe.
PipeAfterRead(pp, j, r) ==
    CASE r.res = "data" ->
           [pp EXCEPT ![j].wr = Drop(pp[j].wr, RdBuf), ![j].lead = @ - Len(r.chunk)]
      [] r.res = "ctx" -> [pp EXCEPT ![j].lrd = ~pp[j].closed]
      [] OTHER -> pp

\* What a Read of the literal input of round trip k returns.
LiteralResults(k) ==
    IF inrem[k] # <<>> THEN {[res |-> "data", chunk |-> Take(inrem[k], RdBuf)]}
    ELSE CASE sc.tail = "eof" -> {[res |-> "eof", chunk |-> <<>>]}
           [] sc.tail = "err" -> {[res |-> "err", chunk |-> <<>>]}
           [] sc.tail = "inf" -> {[res |-> "data", chunk |-> <<Rep(k)>>]}

\* What a Read of the input of call i returns, and the state of the input after it.
SrcResults(i) == IF FromPipe(i) THEN PipeResults(Up(i)) ELSE LiteralResults(TripOf(i))
SrcPipes(i, r) == IF FromPipe(i) THEN PipeAfterRead(pipe, Up(i), r) ELSE pipe
SrcInrem(i, r) ==
    IF FromPipe(i) THEN inrem
    ELSE [inrem EXCEPT ![TripOf(i)] = Drop(inrem[TripOf(i)], RdBuf)]
SrcErr(r) == IF r.res = "ctx" THEN <<ErrCanceled>> ELSE <<ErrReading>>

\* The message Compress / Decompress puts on an error of the step it is in.
PhaseMsg(i) ==
    IF ~IsCompress(i) THEN "decompressing data"
    ELSE IF ret[i] \in {"rd", "zw"} THEN "compressing data"
    ELSE "closing compressor"

\* The write end's Write(chunk) by call i, continuing at r when it returns: the
\* bytes are offered to the readers of the pipe, and the writer waits. No call
\* writes after its write end was closed, so the closed-pipe error does not occur.
StartWrite(pp, i, chunk, r) ==
    /\ pipe' = [pp EXCEPT ![SinkOf(i)].wr = chunk, ![SinkOf(i)].busy = TRUE,
                         ![SinkOf(i)].wlen = Len(chunk)]
    /\ bg' = [bg EXCEPT ![i] = "wr"]
    /\ ret' = [ret EXCEPT ![i] = r]

\* ---------------------------------------------------------------- context

\* The context is cancelled. The concurrent round trips run, as in the README
\* test, under a context that does not fire.
Cancel ==
    /\ ~cancelled
    /\ sc.shape # "concurrent"
    /\ cancelled' = TRUE
    /\ UNCHANGED <<proc, tt, cli, configs, nerr, client, sc, inrem, cpc, out, rerr, got, returned, ctorfail,
                   bg, ret, cur, val, zw, zr, pipe, slot, ndep, drain, clo>>

\* ----------------------------------------------------------------- caller

AfterCalls(k) == IF sc.mode = "drain" THEN "read" ELSE "recv"

\* Mutant of CallCompress: the call stores what it built in the client, whose
\* compressor constructor then hands that writer out again.
CallCompressKeepsWriter(k) ==
    /\ cpc[k] = "start"
    /\ bg' = [bg EXCEPT ![Comp(k)] = "rd"]
    /\ returned' = [returned EXCEPT ![Comp(k)] = TRUE]
    /\ cpc' = [cpc EXCEPT ![k] = IF HasDecomp(k) THEN "calld" ELSE AfterCalls(k)]
    /\ client' = [client EXCEPT !.compressor = "noop"]
    /\ UNCHANGED <<proc, tt, cli, configs, nerr, sc, cancelled, inrem, out, rerr, got, ctorfail,
                   ret, cur, val, zw, zr, pipe, slot, ndep, drain, clo>>

\* Mutant of CallCompress: the function that copies is called, not started with go:
\* the copy runs while Compress has not returned.
CallCompressCopiesFirst(k) ==
    /\ cpc[k] = "start"
    /\ bg' = [bg EXCEPT ![Comp(k)] = "rd"]
    /\ cpc' = [cpc EXCEPT ![k] = IF HasDecomp(k) THEN "calld" ELSE AfterCalls(k)]
    /\ UNCHANGED <<proc, tt, cli, configs, nerr, client, sc, cancelled, inrem, out, rerr, got,
                   returned, ctorfail, ret, cur, val, zw, zr, pipe, slot, ndep,
                   drain, clo>>

\* client.Compress up to its return: the pipe, the compressor, the goroutine.
CallCompress(k) ==
    /\ cpc[k] = "start"
    /\ bg' = [bg EXCEPT ![Comp(k)] = "rd"]
    /\ returned' = [returned EXCEPT ![Comp(k)] = TRUE]
    /\ cpc' = [cpc EXCEPT ![k] = IF HasDecomp(k) THEN "calld" ELSE AfterCalls(k)]
    /\ UNCHANGED <<proc, tt, cli, configs, nerr, client, sc, cancelled, inrem, out, rerr, got, ctorfail, ret, cur,
                   val, zw, zr, pipe, slot, ndep, drain, clo>>

\* client.Decompress: the pipe and errCh, then the decompressor constructor.
CallDecompress(k) ==
    /\ cpc[k] = "calld"
    /\ cpc' = [cpc EXCEPT ![k] = "ctor"]
    /\ UNCHANGED <<proc, tt, cli, configs, nerr, client, sc, cancelled, inrem, out, rerr, got, returned, ctorfail,
                   bg, ret, cur, val, zw, zr, pipe, slot, ndep, drain, clo>>

\* Mutant of CtorFailed: the constructor's error is dropped and nil is sent.
CtorFailedDropsError(k, e) ==
    /\ slot' = [slot EXCEPT ![Decomp(k)] = Append(@, NilErr)]
    /\ ndep' = [ndep EXCEPT ![Decomp(k)] = @ + 1]
    /\ ctorfail' = [ctorfail EXCEPT ![Decomp(k)] = TRUE]
    /\ cpc' = [cpc EXCEPT ![k] = "dret"]
    /\ UNCHANGED <<bg, returned>>

\* Mutant of CtorFailed: the return after the failed constructor is missing, so
\* the goroutine is started as well.
CtorFailedNoReturn(k, e) ==
    /\ slot' = [slot EXCEPT ![Decomp(k)] =
                  Append(@, Wrap("creating decompressor", e))]
    /\ ndep' = [ndep EXCEPT ![Decomp(k)] = @ + 1]
    /\ ctorfail' = [ctorfail EXCEPT ![Decomp(k)] = TRUE]
    /\ bg' = [bg EXCEPT ![Decomp(k)] = "rd"]
    /\ returned' = [returned EXCEPT ![Decomp(k)] = TRUE]
    /\ cpc' = [cpc EXCEPT ![k] = AfterCalls(k)]

\* The constructor failed: the error is sent on errCh, the close is deferred.
CtorFailed(k, e) ==
    /\ slot' = [slot EXCEPT ![Decomp(k)] =
                  Append(@, Wrap("creating decompressor", e))]
    /\ ndep' = [ndep EXCEPT ![Decomp(k)] = @ + 1]
    /\ ctorfail' = [ctorfail EXCEPT ![Decomp(k)] = TRUE]
    /\ cpc' = [cpc EXCEPT ![k] = "dret"]
    /\ UNCHANGED <<bg, returned>>

\* The constructor succeeded: the goroutine is started and Decompress returns.
CtorSucceeded(k) ==
    /\ bg' = [bg EXCEPT ![Decomp(k)] = "rd"]
    /\ returned' = [returned EXCEPT ![Decomp(k)] = TRUE]
    /\ cpc' = [cpc EXCEPT ![k] = AfterCalls(k)]
    /\ UNCHANGED <<slot, ndep, ctorfail>>

\* Mutant of Construct: no constructor reads, the header is left to the first
\* Read of the goroutine.
ConstructReadsNothing(k) ==
    /\ cpc[k] = "ctor"
    /\ CtorSucceeded(k) /\ UNCHANGED <<zr, pipe, inrem>>
    /\ UNCHANGED <<proc, tt, cli, configs, nerr, client, sc, cancelled, out, rerr, got, ret, cur, val, zw,
                   drain, clo>>

\* c.decompressor(input), in the calling goroutine. gzip.NewReader reads the
\* header from the input; the other constructors read nothing.
Construct(k) ==
    LET d == Decomp(k) IN
    /\ cpc[k] = "ctor"
    /\ IF client.decompressor # "gzip"
       THEN CtorSucceeded(k) /\ UNCHANGED <<zr, pipe, inrem>>
       ELSE IF zr[d].buf = <<>>
       THEN \E r \in SrcResults(d) :
              /\ pipe' = SrcPipes(d, r)
              /\ IF r.res = "data"
                 THEN /\ zr' = [zr EXCEPT ![d].buf = r.chunk]
                      /\ inrem' = SrcInrem(d, r)
                      /\ UNCHANGED <<slot, ndep, ctorfail, cpc, bg, returned>>
                 ELSE /\ CtorFailed(k, Wrap("creating decompressor",
                                 IF r.res = "eof" THEN <<ErrEOF>> ELSE SrcErr(r)))
                      /\ UNCHANGED <<zr, inrem>>
       ELSE /\ UNCHANGED <<pipe, inrem>>
            /\ IF Head(zr[d].buf) = GzHeader
               THEN /\ zr' = [zr EXCEPT ![d].buf = Tail(@), ![d].st = "body"]
                    /\ CtorSucceeded(k)
               ELSE /\ CtorFailed(k, Wrap("creating decompressor", <<ErrGzHeader>>))
                    /\ UNCHANGED zr
    /\ UNCHANGED <<proc, tt, cli, configs, nerr, client, sc, cancelled, out, rerr, got, ret, cur, val, zw,
                   drain, clo>>

\* Mutant of DecompressReturn: the deferred Close of the write end is missing.
DecompressReturnNoClose(k) ==
    /\ cpc[k] = "dret"
    /\ returned' = [returned EXCEPT ![Decomp(k)] = TRUE]
    /\ cpc' = [cpc EXCEPT ![k] = AfterCalls(k)]
    /\ UNCHANGED <<proc, tt, cli, configs, nerr, client, sc, cancelled, inrem, out, rerr, got, ctorfail, bg, ret,
                   cur, val, zw, zr, pipe, slot, ndep, drain, clo>>

\* Decompress returns after a failed constructor: the deferred Close runs.
DecompressReturn(k) ==
    /\ cpc[k] = "dret"
    /\ pipe' = PipeClose(pipe, SinkOf(Decomp(k)))
    /\ returned' = [returned EXCEPT ![Decomp(k)] = TRUE]
    /\ cpc' = [cpc EXCEPT ![k] = AfterCalls(k)]
    /\ UNCHANGED <<proc, tt, cli, configs, nerr, client, sc, cancelled, inrem, out, rerr, got, ctorfail, bg, ret,
                   cur, val, zw, zr, slot, ndep, drain, clo>>

\* Mutant of CallerRead: the write end is closed with the error of the goroutine
\* (CloseWithError), so the Read that finds the pipe closed returns that error.
CallerReadSeesCloseError(k) ==
    /\ cpc[k] = "read"
    /\ \E r \in PipeResults(OutOp(k)) :
         LET inband == r.res = "eof" /\ val[OutOp(k)] # NilErr IN
         /\ pipe' = PipeAfterRead(pipe, OutOp(k), r)
         /\ out' = [out EXCEPT ![k] = IF sc.tail = "inf" THEN @ ELSE @ \o r.chunk]
         /\ rerr' = [rerr EXCEPT ![k] =
                       IF r.res = "ctx" THEN <<ErrCanceled>>
                       ELSE IF inband THEN val[OutOp(k)] ELSE @]
         /\ cpc' = [cpc EXCEPT ![k] =
                      CASE r.res = "data" -> "read"
                        [] r.res = "eof" -> IF inband THEN "done" ELSE "recv"
                        [] r.res = "ctx" -> "done"]
    /\ UNCHANGED <<proc, tt, cli, configs, nerr, client, sc, cancelled, inrem, got, returned,
                   ctorfail, bg, ret, cur, val, zw, zr, slot, ndep, drain, clo>>

\* One Read of the caller's loop over the output stream (io.ReadAll, io.Copy):
\* bytes are kept, end of stream ends the loop, an error ends the caller.
CallerRead(k) ==
    /\ cpc[k] = "read"
    /\ \E r \in PipeResults(OutOp(k)) :
         /\ pipe' = PipeAfterRead(pipe, OutOp(k), r)
         /\ out' = [out EXCEPT ![k] = IF sc.tail = "inf" THEN @ ELSE @ \o r.chunk]
         /\ rerr' = [rerr EXCEPT ![k] = IF r.res = "ctx" THEN <<ErrCanceled>> ELSE @]
         /\ cpc' = [cpc EXCEPT ![k] =
                      CASE r.res = "data" -> "read"
                        [] r.res = "eof" -> "recv"
                        [] r.res = "ctx" -> "done"]
    /\ UNCHANGED <<proc, tt, cli, configs, nerr, client, sc, cancelled, inrem, got, returned, ctorfail, bg, ret,
                   cur, val, zw, zr, slot, ndep, drain, clo>>

\* The call whose errCh the caller receives from next, the Compress first.
NextRecv(k) ==
    IF HasComp(k) /\ got[Comp(k)] = <<>> THEN Comp(k) ELSE Decomp(k)

\* <-errCh; the caller returns on the first error it receives.
CallerRecv(k) ==
    LET i == NextRecv(k) IN
    /\ cpc[k] = "recv"
    /\ slot[i] # <<>>
    /\ got' = [got EXCEPT ![i] = <<Head(slot[i])>>]
    /\ slot' = [slot EXCEPT ![i] = Tail(@)]
    /\ cpc' = [cpc EXCEPT ![k] =
                 IF Head(slot[i]) # NilErr \/ i = OutOp(k) THEN "done" ELSE "recv"]
    /\ UNCHANGED <<proc, tt, cli, configs, nerr, client, sc, cancelled, inrem, out, rerr, returned, ctorfail, bg,
                   ret, cur, val, zw, zr, pipe, ndep, drain, clo>>

\* The goroutine a cancelled Read left behind takes the bytes of a pending write.
LeakedRead(i) ==
    /\ pipe[i].lrd
    /\ ~pipe[i].closed /\ pipe[i].busy /\ pipe[i].wr # <<>>
    /\ pipe' = [pipe EXCEPT ![i].wr = Drop(@, RdBuf), ![i].lrd = FALSE]
    /\ UNCHANGED <<proc, tt, cli, configs, nerr, client, sc, cancelled, inrem, cpc, out, rerr, got, returned,
                   ctorfail, bg, ret, cur, val, zw, zr, slot, ndep, drain, clo>>


\* ------------------------------------------------- background goroutines

\* The goroutine's function returns e from the step it is in.
Fail(i, e) ==
    /\ val' = [val EXCEPT ![i] = Wrap(PhaseMsg(i), e)]
    /\ bg' = [bg EXCEPT ![i] = "dep"]

\* Mutant of CompressRead: after a Read that failed the compressor is closed all
\* the same.
CompressReadClosesAfterError(i) ==
    /\ IsCompress(i) /\ bg[i] = "rd"
    /\ \E r \in LiteralResults(TripOf(i)) :
         CASE r.res = "data" ->
                /\ cur' = [cur EXCEPT ![i] = r.chunk]
                /\ inrem' = SrcInrem(i, r)
                /\ bg' = [bg EXCEPT ![i] = "zw"]
                /\ UNCHANGED <<val, drain>>
           [] r.res = "eof" ->
                /\ drain' = [drain EXCEPT ![i] = EndedOk]
                /\ bg' = [bg EXCEPT ![i] = "close"]
                /\ UNCHANGED <<val, cur, inrem>>
           [] r.res = "err" ->
                /\ drain' = [drain EXCEPT ![i] = EndedErr(SrcErr(r))]
                /\ bg' = [bg EXCEPT ![i] = "close"]
                /\ UNCHANGED <<val, cur, inrem>>
    /\ UNCHANGED <<proc, tt, cli, configs, nerr, client, sc, cancelled, cpc, out, rerr, got, returned, ctorfail,
                   ret, zw, zr, pipe, slot, ndep, clo>>

\* Compress, io.Copy(compressor, input): one Read of the input.
CompressRead(i) ==
    /\ IsCompress(i) /\ bg[i] = "rd"
    /\ \E r \in LiteralResults(TripOf(i)) :
         CASE r.res = "data" ->
                /\ cur' = [cur EXCEPT ![i] = r.chunk]
                /\ inrem' = SrcInrem(i, r)
                /\ bg' = [bg EXCEPT ![i] = "zw"]
                /\ UNCHANGED <<val, drain>>
           [] r.res = "eof" ->
                /\ drain' = [drain EXCEPT ![i] = EndedOk]
                /\ bg' = [bg EXCEPT ![i] = "close"]
                /\ UNCHANGED <<val, cur, inrem>>
           [] r.res = "err" ->
                /\ drain' = [drain EXCEPT ![i] = EndedErr(SrcErr(r))]
                /\ Fail(i, SrcErr(r))
                /\ UNCHANGED <<cur, inrem>>
    /\ UNCHANGED <<proc, tt, cli, configs, nerr, client, sc, cancelled, cpc, out, rerr, got, returned, ctorfail,
                   ret, zw, zr, pipe, slot, ndep, clo>>

\* Compress, io.Copy(compressor, input): compressor.Write of the bytes read.
\* gzip.Writer writes its header before the first bytes, keeps the encoded bytes
\* and writes them to its sink when it holds GzBuf of them; the other compressors
\* pass the bytes to the sink.
CompressWrite(i) ==
    /\ IsCompress(i) /\ bg[i] = "zw"
    /\ IF client.compressor # "gzip"
       THEN /\ StartWrite(pipe, i, cur[i], "rd")
            /\ cur' = [cur EXCEPT ![i] = <<>>]
            /\ UNCHANGED zw
       ELSE IF ~zw[i].hdr
       THEN /\ StartWrite(pipe, i, <<GzHeader>>, "zw")
            /\ zw' = [zw EXCEPT ![i].hdr = TRUE]
            /\ UNCHANGED cur
       ELSE LET b == cur[i][1]
                buf == Append(zw[i].buf, GzEnc(b))
                z == [zw[i] EXCEPT !.crc = CrcUpdate(@, b), !.size = SizeUpdate(@)]
                more == Len(cur[i]) > 1
            IN  /\ cur' = [cur EXCEPT ![i] = Tail(@)]
                /\ IF Len(buf) >= GzBuf
                   THEN /\ zw' = [zw EXCEPT ![i] = [z EXCEPT !.buf = <<>>]]
                        /\ StartWrite(pipe, i, buf, IF more THEN "zw" ELSE "rd")
                   ELSE /\ zw' = [zw EXCEPT ![i] = [z EXCEPT !.buf = buf]]
                        /\ bg' = [bg EXCEPT ![i] = IF more THEN "zw" ELSE "rd"]
                        /\ UNCHANGED <<pipe, ret>>
    /\ UNCHANGED <<proc, tt, cli, configs, nerr, client, sc, cancelled, inrem, cpc, out, rerr, got, returned,
                   ctorfail, val, zr, slot, ndep, drain, clo>>

\* Mutant of WriteDone: the pipe has a buffer, so a write returns before its bytes
\* are read.
WriteDoneBuffered(i) ==
    /\ bg[i] = "wr"
    /\ pipe[SinkOf(i)].busy
    /\ pipe' = [pipe EXCEPT ![SinkOf(i)].busy = FALSE, ![SinkOf(i)].wlen = 0,
                           ![SinkOf(i)].lead = @ + pipe[SinkOf(i)].wlen]
    /\ bg' = [bg EXCEPT ![i] = ret[i]]
    /\ clo' = [clo EXCEPT ![i] = IF ret[i] = "pclose" THEN EndedOk ELSE @]
    /\ UNCHANGED <<proc, tt, cli, configs, nerr, client, sc, cancelled, inrem, cpc, out, rerr, got,
                   returned, ctorfail, ret, cur, val, zw, zr, slot, ndep, drain>>

\* The pipe write returns: every byte of it was read.
WriteDone(i) ==
    /\ bg[i] = "wr"
    /\ pipe[SinkOf(i)].busy /\ pipe[SinkOf(i)].wr = <<>>
    /\ pipe' = [pipe EXCEPT ![SinkOf(i)].busy = FALSE, ![SinkOf(i)].wlen = 0,
                           ![SinkOf(i)].lead = @ + pipe[SinkOf(i)].wlen]
    /\ bg' = [bg EXCEPT ![i] = ret[i]]
    /\ clo' = [clo EXCEPT ![i] = IF ret[i] = "pclose" THEN EndedOk ELSE @]
    /\ UNCHANGED <<proc, tt, cli, configs, nerr, client, sc, cancelled, inrem, cpc, out, rerr, got, returned,
                   ctorfail, ret, cur, val, zw, zr, slot, ndep, drain>>

\* Mutant of WriteCancelled: the write end is used without the context writer, so
\* a pending Write never returns the context's error.
WriteIgnoresContext(i) ==
    /\ bg[i] = "wr"
    /\ cancelled
    /\ FALSE
    /\ UNCHANGED vars

\* Mutant of WriteCancelled: the Write gives up without an error, and the
\* goroutine sends nil.
WriteCancelledSilently(i) ==
    /\ bg[i] = "wr"
    /\ cancelled
    /\ val' = [val EXCEPT ![i] = NilErr]
    /\ bg' = [bg EXCEPT ![i] = "dep"]
    /\ drain' = [drain EXCEPT ![i] =
                   IF @.st = "none" THEN EndedErr(<<ErrCanceled>>) ELSE @]
    /\ clo' = [clo EXCEPT ![i] =
                 IF drain[i].st = "ok" THEN EndedErr(<<ErrCanceled>>) ELSE @]
    /\ UNCHANGED <<proc, tt, cli, configs, nerr, client, sc, cancelled, inrem, cpc, out, rerr, got, returned,
                   ctorfail, ret, cur, zw, zr, pipe, slot, ndep>>

\* The context writer's Write returns the context's error; the pipe write it
\* started stays pending.
WriteCancelled(i) ==
    /\ bg[i] = "wr"
    /\ cancelled
    /\ Fail(i, <<ErrCanceled>>)
    /\ drain' = [drain EXCEPT ![i] =
                   IF @.st = "none" THEN EndedErr(<<ErrCanceled>>) ELSE @]
    /\ clo' = [clo EXCEPT ![i] =
                 IF drain[i].st = "ok" THEN EndedErr(<<ErrCanceled>>) ELSE @]
    /\ UNCHANGED <<proc, tt, cli, configs, nerr, client, sc, cancelled, inrem, cpc, out, rerr, got, returned,
                   ctorfail, ret, cur, zw, zr, pipe, slot, ndep>>

\* Mutant of CompressClose: compressor.Close() is not called, so what the
\* compressor holds is never written; the write end is closed right away.
CompressCloseNoFlush(i) ==
    /\ IsCompress(i) /\ bg[i] = "close"
    /\ clo' = [clo EXCEPT ![i] = EndedOk]
    /\ bg' = [bg EXCEPT ![i] = "pclose"]
    /\ UNCHANGED <<proc, tt, cli, configs, nerr, client, sc, cancelled, inrem, cpc, out, rerr, got, returned,
                   ctorfail, cur, zr, slot, ndep, drain, val, zw, ret, pipe>>

\* Compress: compressor.Close(), reached when io.Copy returned no error.
\* gzip.Writer writes the header if it has not, then what it holds with the end of
\* the deflate stream; the noop compressor is the write end itself; the
\* compressor of the README test closes its sink and returns its error.
CompressClose(i) ==
    /\ IsCompress(i) /\ bg[i] = "close"
    /\ CASE client.compressor = "noop" ->
              /\ pipe' = PipeClose(pipe, SinkOf(i))
              /\ clo' = [clo EXCEPT ![i] = EndedOk]
              /\ bg' = [bg EXCEPT ![i] = "pclose"]
              /\ UNCHANGED <<val, zw, ret>>
         [] client.compressor = "failclose" ->
              /\ pipe' = PipeClose(pipe, SinkOf(i))
              /\ clo' = [clo EXCEPT ![i] = EndedErr(<<ErrTest>>)]
              /\ val' = [val EXCEPT ![i] = Wrap("closing compressor", <<ErrTest>>)]
              /\ bg' = [bg EXCEPT ![i] = "dep"]
              /\ UNCHANGED <<zw, ret>>
         [] client.compressor = "gzip" ->
              /\ IF ~zw[i].hdr
                 THEN /\ StartWrite(pipe, i, <<GzHeader>>, "close")
                      /\ zw' = [zw EXCEPT ![i].hdr = TRUE]
                 ELSE /\ StartWrite(pipe, i, Append(zw[i].buf, GzFinal), "ztr")
                      /\ zw' = [zw EXCEPT ![i].buf = <<>>]
              /\ UNCHANGED <<val, clo>>
    /\ UNCHANGED <<proc, tt, cli, configs, nerr, client, sc, cancelled, inrem, cpc, out, rerr, got, returned,
                   ctorfail, cur, zr, slot, ndep, drain>>

\* gzip.Writer.Close: the trailer, after the deflate stream.
CompressTrailer(i) ==
    /\ IsCompress(i) /\ bg[i] = "ztr"
    /\ StartWrite(pipe, i, <<GzTrailer(zw[i].crc, zw[i].size)>>, "pclose")
    /\ UNCHANGED <<proc, tt, cli, configs, nerr, client, sc, cancelled, inrem, cpc, out, rerr, got, returned,
                   ctorfail, cur, val, zw, zr, slot, ndep, drain, clo>>

\* The goroutine's own Close of the context write closer: in Compress after
\* compressor.Close() returned nil, in Decompress deferred once io.Copy returned nil.
ClosePipe(i) ==
    /\ bg[i] = "pclose"
    /\ pipe' = PipeClose(pipe, SinkOf(i))
    /\ bg' = [bg EXCEPT ![i] = "dep"]
    /\ UNCHANGED <<proc, tt, cli, configs, nerr, client, sc, cancelled, inrem, cpc, out, rerr, got, returned,
                   ctorfail, ret, cur, val, zw, zr, slot, ndep, drain, clo>>

\* Mutant of Deposit: errCh holds no value, so the send waits for the receive.
DepositUnbuffered(i) ==
    /\ bg[i] = "dep"
    /\ cpc[TripOf(i)] = "recv" /\ NextRecv(TripOf(i)) = i
    /\ Len(slot[i]) < 1
    /\ slot' = [slot EXCEPT ![i] = Append(@, val[i])]
    /\ ndep' = [ndep EXCEPT ![i] = @ + 1]
    /\ bg' = [bg EXCEPT ![i] = "done"]
    /\ UNCHANGED <<proc, tt, cli, configs, nerr, client, sc, cancelled, inrem, cpc, out, rerr, got, returned,
                   ctorfail, ret, cur, val, zw, zr, pipe, clo, drain>>

\* errCh <- the value the function returned; errCh holds one value.
Deposit(i) ==
    /\ bg[i] = "dep"
    /\ Len(slot[i]) < 1
    /\ slot' = [slot EXCEPT ![i] = Append(@, val[i])]
    /\ ndep' = [ndep EXCEPT ![i] = @ + 1]
    /\ bg' = [bg EXCEPT ![i] = "done"]
    /\ UNCHANGED <<proc, tt, cli, configs, nerr, client, sc, cancelled, inrem, cpc, out, rerr, got, returned,
                   ctorfail, ret, cur, val, zw, zr, pipe, clo, drain>>

\* Decompress, io.Copy(writer, decompressor): decompressor.Read ended the copy.
CopyEnded(i, r) ==
    IF r.res = "eof"
    THEN /\ drain' = [drain EXCEPT ![i] = EndedOk]
         /\ bg' = [bg EXCEPT ![i] = "close"]
         /\ UNCHANGED val
    ELSE /\ drain' = [drain EXCEPT ![i] = EndedErr(r.err)]
         /\ Fail(i, r.err)

\* Decompress, io.Copy(writer, decompressor) with the noop decompressor or the
\* decompressor of the README test: a Read of the input, and the Write of its bytes.
DecompressCopy(i) ==
    /\ ~IsCompress(i) /\ bg[i] = "rd"
    /\ client.decompressor # "gzip"
    /\ \E r \in SrcResults(i) :
         IF r.res = "data"
         THEN /\ StartWrite(SrcPipes(i, r), i, r.chunk, "rd")
              /\ inrem' = SrcInrem(i, r)
              /\ UNCHANGED <<val, drain>>
         ELSE /\ pipe' = SrcPipes(i, r)
              /\ CopyEnded(i, [res |-> r.res, err |-> SrcErr(r)])
              /\ UNCHANGED <<inrem, ret>>
    /\ UNCHANGED <<proc, tt, cli, configs, nerr, client, sc, cancelled, cpc, out, rerr, got, returned, ctorfail,
                   cur, zw, zr, slot, ndep, clo>>

\* Decompress, io.Copy(writer, decompressor) with gzip.Reader: it fills its buffer
\* from the input when empty, decodes the deflate stream a byte at a time, checks
\* the trailer against what it decoded, and then looks for another gzip member;
\* end of input there is the end of the data, anywhere else it is an error.
GzipRead(i) ==
    /\ ~IsCompress(i) /\ bg[i] = "rd"
    /\ client.decompressor = "gzip"
    /\ IF zr[i].buf = <<>>
       THEN \E r \in SrcResults(i) :
              /\ pipe' = SrcPipes(i, r)
              /\ IF r.res = "data"
                 THEN /\ zr' = [zr EXCEPT ![i].buf = r.chunk]
                      /\ inrem' = SrcInrem(i, r)
                      /\ UNCHANGED <<bg, ret, val, drain>>
                 ELSE /\ CopyEnded(i,
                           IF r.res = "eof"
                           THEN IF zr[i].st = "next"
                                THEN [res |-> "eof", err |-> NilErr]
                                ELSE [res |-> "err", err |-> <<ErrUnexpectedEOF>>]
                           ELSE [res |-> "err", err |-> SrcErr(r)])
                      /\ UNCHANGED <<zr, inrem, ret>>
       ELSE LET t == Head(zr[i].buf)
                z == [zr[i] EXCEPT !.buf = Tail(@)]
            IN  /\ inrem' = inrem
                /\ CASE zr[i].st = "body" /\ GzIsEnc(t) ->
                          /\ zr' = [zr EXCEPT ![i] =
                                      [z EXCEPT !.crc = CrcUpdate(@, GzDec(t)),
                                                !.size = SizeUpdate(@)]]
                          /\ StartWrite(pipe, i, <<GzDec(t)>>, "rd")
                          /\ UNCHANGED <<val, drain>>
                     [] zr[i].st = "body" /\ t = GzFinal ->
                          /\ zr' = [zr EXCEPT ![i] = [z EXCEPT !.st = "trl"]]
                          /\ UNCHANGED <<bg, ret, val, drain, pipe>>
                     [] zr[i].st = "trl" /\ t = GzTrailer(zr[i].crc, zr[i].size) ->
                          /\ zr' = [zr EXCEPT ![i] =
                                      [z EXCEPT !.st = "next", !.crc = 0, !.size = 0]]
                          /\ UNCHANGED <<bg, ret, val, drain, pipe>>
                     [] zr[i].st = "next" /\ t = GzHeader ->
                          /\ zr' = [zr EXCEPT ![i] = [z EXCEPT !.st = "body"]]
                          /\ UNCHANGED <<bg, ret, val, drain, pipe>>
                     [] OTHER ->
                          /\ CopyEnded(i, [res |-> "err", err |->
                                CASE zr[i].st = "body" -> <<ErrFlate>>
                                  [] zr[i].st = "trl" -> <<ErrGzChecksum>>
                                  [] OTHER -> <<ErrGzHeader>>])
                          /\ UNCHANGED <<zr, ret, pipe>>
    /\ UNCHANGED <<proc, tt, cli, configs, nerr, client, sc, cancelled, cpc, out, rerr, got, returned, ctorfail,
                   cur, zw, slot, ndep, clo>>

\* Mutant of DecompressClose: the error of decompressor.Close() is dropped.
DecompressCloseDropsError(i) ==
    /\ ~IsCompress(i) /\ bg[i] = "close"
    /\ clo' = [clo EXCEPT ![i] =
                 IF client.decompressor = "failclose"
                 THEN EndedErr(<<ErrTest>>) ELSE EndedOk]
    /\ bg' = [bg EXCEPT ![i] = "pclose"]
    /\ UNCHANGED <<proc, tt, cli, configs, nerr, client, sc, cancelled, inrem, cpc, out, rerr, got, returned,
                   ctorfail, ret, cur, zw, zr, pipe, slot, ndep, drain, val>>

\* Decompress: the pipe Close is deferred, then decompressor.Close(); its error,
\* if any, is what the function returns. Only the decompressor of the README test
\* fails to close.
DecompressClose(i) ==
    /\ ~IsCompress(i) /\ bg[i] = "close"
    /\ IF client.decompressor = "failclose"
       THEN /\ clo' = [clo EXCEPT ![i] = EndedErr(<<ErrTest>>)]
            /\ val' = [val EXCEPT ![i] = Wrap("closing decompressor", <<ErrTest>>)]
       ELSE /\ clo' = [clo EXCEPT ![i] = EndedOk]
            /\ UNCHANGED val
    /\ bg' = [bg EXCEPT ![i] = "pclose"]
    /\ UNCHANGED <<proc, tt, cli, configs, nerr, client, sc, cancelled, inrem, cpc, out, rerr, got, returned,
                   ctorfail, ret, cur, zw, zr, pipe, slot, ndep, drain>>

\* ------------------------------------------------------------ the system

\* Every step but the cancellation of the context.
Progress ==
    \/ \E k \in Trips : CallCompress(k)
    \/ \E k \in Trips : CallDecompress(k)
    \/ \E k \in Trips : Construct(k)
    \/ \E k \in Trips : DecompressReturn(k)
    \/ \E k \in Trips : CallerRead(k)
    \/ \E k \in Trips : CallerRecv(k)
    \/ \E i \in Ops : LeakedRead(i)
    \/ \E i \in Ops : CompressRead(i)
    \/ \E i \in Ops : CompressWrite(i)
    \/ \E i \in Ops : WriteDone(i)
    \/ \E i \in Ops : WriteCancelled(i)
    \/ \E i \in Ops : CompressClose(i)
    \/ \E i \in Ops : CompressTrailer(i)
    \/ \E i \in Ops : ClosePipe(i)
    \/ \E i \in Ops : Deposit(i)
    \/ \E i \in Ops : DecompressCopy(i)
    \/ \E i \in Ops : GzipRead(i)
    \/ \E i \in Ops : DecompressClose(i)

Next == Cancel \/ Progress

Spec == Init /\ [][Next]_vars


\* The Go scheduler runs every goroutine that can take a step, and a select with
\* several ready cases picks each of them with equal probability: a Write that is
\* pending again and again while the context is done returns the context's error.
CallerStep(k) ==
    \/ CallCompress(k) \/ CallDecompress(k) \/ Construct(k) \/ DecompressReturn(k)
    \/ CallerRead(k) \/ CallerRecv(k)

BgStep(i) ==
    \/ CompressRead(i) \/ CompressWrite(i) \/ WriteDone(i) \/ WriteCancelled(i)
    \/ CompressClose(i) \/ CompressTrailer(i) \/ ClosePipe(i) \/ Deposit(i)
    \/ DecompressCopy(i) \/ GzipRead(i) \/ DecompressClose(i)

Fairness ==
    /\ \A k \in Trips : WF_vars(CallerStep(k))
    /\ \A i \in Ops : WF_vars(BgStep(i))
    /\ \A i \in Ops : SF_vars(WriteCancelled(i))

\* The calls on an input that never ends. Such an input gives no end of stream, so
\* no transform and no pipe is closed by a goroutine: the steps that close them are
\* left out.
InitEndless == Init /\ sc.tail = "inf"

NextEndless ==
    \/ Cancel
    \/ \E k \in Trips : CallCompress(k)
    \/ \E k \in Trips : CallDecompress(k)
    \/ \E k \in Trips : Construct(k)
    \/ \E k \in Trips : DecompressReturn(k)
    \/ \E k \in Trips : CallerRead(k)
    \/ \E k \in Trips : CallerRecv(k)
    \/ \E i \in Ops : LeakedRead(i)
    \/ \E i \in Ops : CompressRead(i)
    \/ \E i \in Ops : CompressWrite(i)
    \/ \E i \in Ops : WriteDone(i)
    \/ \E i \in Ops : WriteCancelled(i)
    \/ \E i \in Ops : Deposit(i)
    \/ \E i \in Ops : DecompressCopy(i)
    \/ \E i \in Ops : GzipRead(i)

EndlessSpec == InitEndless /\ [][NextEndless]_vars /\ Fairness

\* ------------------------------------------------- the NewClient call

\* testData of the README tests and of the tests of the Cli.
TestData == ConcData(MaxLen)

\* No call made on the client yet.
NoCalls ==
    [shape |-> "none", data |-> [k \in Trips |-> <<>>], tail |-> "eof",
     mode |-> "drain", enc |-> "raw"]

\* What the caller of NewClient goes on to do with the client, as the README tests
\* and Cli.runAction do: one Compress or one Decompress of testData, raw or in the
\* gzip format, under a context that does not fire, drained and then received from.
ClientScenarios ==
    {s \in [shape : {"compress", "decompress"},
            data : {[k \in Trips |-> IF k = 1 THEN TestData ELSE <<>>]},
            tail : {"eof"},
            mode : {"drain"},
            enc : {"raw", "gz"}] :
        s.shape = "compress" => s.enc = "raw"}

\* Before the call of NewClient: the arguments are chosen, nothing is built.
InitClient ==
    /\ proc = NoProc
    /\ tt = NoTesting
    /\ cli = NoCli
    /\ configs \in ConfigLists
    /\ client = NilClient
    /\ nerr = NilErr
    /\ sc = NoCalls
    /\ cancelled = FALSE
    /\ inrem = [k \in Trips |-> <<>>]
    /\ cpc = [k \in Trips |-> IF k = 1 THEN "new" ELSE "done"]
    /\ out = [k \in Trips |-> <<>>]
    /\ rerr = [k \in Trips |-> NilErr]
    /\ got = [i \in Ops |-> <<>>]
    /\ returned = [i \in Ops |-> FALSE]
    /\ ctorfail = [i \in Ops |-> FALSE]
    /\ bg = [i \in Ops |-> "idle"]
    /\ ret = [i \in Ops |-> "rd"]
    /\ cur = [i \in Ops |-> <<>>]
    /\ val = [i \in Ops |-> NilErr]
    /\ zw = [i \in Ops |-> NewGzWriter]
    /\ zr = [i \in Ops |-> NewGzReader]
    /\ pipe = [i \in Ops |-> EmptyPipe]
    /\ slot = [i \in Ops |-> <<>>]
    /\ ndep = [i \in Ops |-> 0]
    /\ drain = [i \in Ops |-> NotEnded]
    /\ clo = [i \in Ops |-> NotEnded]

\* client, err := compressor.NewClient(configs...): on an error the caller stops,
\* as Cli.runAction and the README tests do; otherwise it goes on to its call.
CallNewClient ==
    /\ cpc[1] = "new"
    /\ client' = NewClient(configs).client
    /\ nerr' = NewClient(configs).err
    /\ IF NewClient(configs).err # NilErr
       THEN /\ cpc' = [cpc EXCEPT ![1] = "done"]
            /\ UNCHANGED <<sc, inrem>>
       ELSE /\ sc' \in ClientScenarios
            /\ inrem' = [k \in Trips |-> Literal(sc'.data[k], sc'.enc)]
            /\ cpc' = [cpc EXCEPT ![1] =
                         IF sc'.shape = "compress" THEN "start" ELSE "calld"]
    /\ UNCHANGED <<proc, tt, cli, configs, cancelled, out, rerr, got, returned, ctorfail, bg, ret,
                   cur, val, zw, zr, pipe, slot, ndep, drain, clo>>

\* NewClient and the call made on its client; the context does not fire.
NextClient ==
    \/ CallNewClient
    \/ \E k \in Trips : CallCompress(k)
    \/ \E k \in Trips : CallDecompress(k)
    \/ \E k \in Trips : Construct(k)
    \/ \E k \in Trips : DecompressReturn(k)
    \/ \E k \in Trips : CallerRead(k)
    \/ \E k \in Trips : CallerRecv(k)
    \/ \E i \in Ops : CompressRead(i)
    \/ \E i \in Ops : CompressWrite(i)
    \/ \E i \in Ops : WriteDone(i)
    \/ \E i \in Ops : CompressClose(i)
    \/ \E i \in Ops : CompressTrailer(i)
    \/ \E i \in Ops : ClosePipe(i)
    \/ \E i \in Ops : Deposit(i)
    \/ \E i \in Ops : DecompressCopy(i)
    \/ \E i \in Ops : GzipRead(i)
    \/ \E i \in Ops : DecompressClose(i)

ClientSpec == InitClient /\ [][NextClient]_vars

\* ----------------------------------------------------------------- the Cli

\* Most arguments after the command name in Args.
MaxArgs == 3

ActionCompress == "compress"
ActionDecompress == "decompress"
DefaultConfigPath == <<"config.yaml">>
\* The error of the destination that fails, testFailingWriter of the tests of the Cli.
ErrWrite == "sample"

\* An argument is the list of the pieces strings.Split(argument, "=") gives: the
\* text before the first "=", then the text between each "=" and the next. The
\* values are texts as NewClient takes them, paths are texts of one symbol.
OtherConfigPath == <<"other.yaml">>
InputPath == <<"input">>
ArgTokens ==
    {<<ActionCompress>>, <<ActionDecompress>>, <<"--help">>, <<"--bogus">>,
     <<"--format", FormatNoop>>, <<"--format", <<>>>>,
     <<"--config", OtherConfigPath>>, <<"--input", InputPath>>}

\* Args: none at all, or the command name and up to MaxArgs arguments.
ArgLists ==
    LET RECURSIVE Lists(_)
        Lists(n) ==
            IF n = 0 THEN {<<>>}
            ELSE Lists(n - 1) \cup
                 {Append(l, a) : l \in {m \in Lists(n - 1) : Len(m) = n - 1},
                                 a \in ArgTokens}
    IN  {<<>>} \cup {<<<<"testCommand">>>> \o l : l \in Lists(MaxArgs)}

\* What COMPRESSOR_FORMAT holds: unset or empty, or a format.
EnvFormats == {<<>>, FormatNoop, FormatGzip}

\* The file at the configuration path: missing, not readable, not a YAML mapping,
\* or a mapping whose format field is empty, a format, or no format.
NoFile == [st |-> "unread", format |-> <<>>, enc |-> "raw"]
ConfigFiles ==
    {[st |-> s, format |-> <<>>, enc |-> "raw"] : s \in {"absent", "unreadable", "invalid"}}
        \cup {[st |-> "ok", format |-> f, enc |-> "raw"] : f \in {<<>>, FormatNoop, BadFormat}}

\* The file at the input path: missing, not to be opened, or holding FileData,
\* as it is, in the gzip format, or in the gzip format and cut before its end.
InputFiles ==
    {[st |-> s, format |-> <<>>, enc |-> "raw"] : s \in {"absent", "unreadable"}}
        \cup {[st |-> "ok", format |-> <<>>, enc |-> e] : e \in {"raw", "gz", "trunc"}}

\* What the input file holds; Input holds TestData.
FileData == ConcData(1)

\* The Cli before Run: the exported fields are set, the others are zero.
NewCli(args, output, errorOutput, input) ==
    [pc |-> "run", Args |-> args, Output |-> output, ErrorOutput |-> errorOutput,
     Input |-> input, action |-> "", format |-> <<>>, configPath |-> <<>>,
     inputPath |-> <<>>, env |-> <<>>, cfgFile |-> NoFile, inFile |-> NoFile,
     input |-> "none", chunk |-> <<>>, outWrites |-> 0, errWrites |-> 0,
     err |-> NilErr]

\* Mutant of CliValidate: ErrorOutput is not checked.
CliValidateNoErrorOutput(c) ==
    IF c.Output = "nil" THEN <<"no output defined">>
    ELSE IF Len(c.Args) = 0 THEN <<"at least one argument must be provided">>
    ELSE NilErr

\* Cli.validate.
CliValidate(c) ==
    IF c.Output = "nil" THEN <<"no output defined">>
    ELSE IF c.ErrorOutput = "nil" THEN <<"no error output defined">>
    ELSE IF Len(c.Args) = 0 THEN <<"at least one argument must be provided">>
    ELSE NilErr

\* fmt.Fprintln(c.Output, usage()) and fmt.Fprintln(c.ErrorOutput, usage()).
UsageToOutput(c) == [c EXCEPT !.outWrites = @ + 1]
UsageToErrorOutput(c) == [c EXCEPT !.errWrites = @ + 1]

\* parseStringArg: the argument starts with the flag and "="; the destination
\* gets the second piece of the argument split at every "=".
parseStringArg(argument, flag) ==
    [ok |-> Len(argument) >= 2 /\ argument[1] = flag,
     value |-> IF Len(argument) >= 2 THEN argument[2] ELSE <<>>]

\* parseValueArgs: the flags that take a value.
parseValueArgs(c, arg) ==
    IF parseStringArg(arg, "--format").ok
    THEN [ok |-> TRUE, c |-> [c EXCEPT !.format = parseStringArg(arg, "--format").value]]
    ELSE IF parseStringArg(arg, "--config").ok
    THEN [ok |-> TRUE, c |-> [c EXCEPT !.configPath = parseStringArg(arg, "--config").value]]
    ELSE IF parseStringArg(arg, "--input").ok
    THEN [ok |-> TRUE, c |-> [c EXCEPT !.inputPath = parseStringArg(arg, "--input").value]]
    ELSE [ok |-> FALSE, c |-> c]

\* Mutant of parseArg: an action argument replaces the action chosen before it.
parseArgLastActionWins(c, arg) ==
    IF arg = <<"--help">>
    THEN [c |-> [c EXCEPT !.action = "help"], err |-> NilErr, stop |-> TRUE]
    ELSE IF arg \in {<<ActionCompress>>, <<ActionDecompress>>}
    THEN [c |-> [c EXCEPT !.action = arg[1]], err |-> NilErr, stop |-> FALSE]
    ELSE IF parseValueArgs(c, arg).ok
    THEN [c |-> parseValueArgs(c, arg).c, err |-> NilErr, stop |-> FALSE]
    ELSE [c |-> UsageToErrorOutput(c), err |-> <<"unknown argument">>, stop |-> TRUE]

\* Mutant of parseArg: --help selects the help action and the loop goes on.
parseArgHelpGoesOn(c, arg) ==
    IF arg = <<"--help">>
    THEN [c |-> [c EXCEPT !.action = "help"], err |-> NilErr, stop |-> FALSE]
    ELSE IF arg \in {<<ActionCompress>>, <<ActionDecompress>>}
    THEN IF c.action # ""
         THEN [c |-> c, err |-> <<"action already specified">>, stop |-> TRUE]
         ELSE [c |-> [c EXCEPT !.action = arg[1]], err |-> NilErr, stop |-> FALSE]
    ELSE IF parseValueArgs(c, arg).ok
    THEN [c |-> parseValueArgs(c, arg).c, err |-> NilErr, stop |-> FALSE]
    ELSE [c |-> UsageToErrorOutput(c), err |-> <<"unknown argument">>, stop |-> TRUE]

\* One turn of the loop of parseArgs: the Cli after it, the error returned, and
\* whether parseArgs returns in this turn.
parseArg(c, arg) ==
    IF arg = <<"--help">>
    THEN [c |-> [c EXCEPT !.action = "help"], err |-> NilErr, stop |-> TRUE]
    ELSE IF arg \in {<<ActionCompress>>, <<ActionDecompress>>}
    THEN IF c.action # ""
         THEN [c |-> c, err |-> <<"action already specified">>, stop |-> TRUE]
         ELSE [c |-> [c EXCEPT !.action = arg[1]], err |-> NilErr, stop |-> FALSE]
    ELSE IF parseValueArgs(c, arg).ok
    THEN [c |-> parseValueArgs(c, arg).c, err |-> NilErr, stop |-> FALSE]
    ELSE [c |-> UsageToErrorOutput(c), err |-> <<"unknown argument">>, stop |-> TRUE]

\* parseArgs over the arguments that are left.
RECURSIVE parseArgs(_, _)
parseArgs(c, args) ==
    IF args = <<>> THEN [c |-> c, err |-> NilErr]
    ELSE LET p == parseArg(c, Head(args)) IN
         IF p.stop THEN [c |-> p.c, err |-> p.err]
         ELSE parseArgs(p.c, Tail(args))

\* Mutant of Dispatch: the usage is written to ErrorOutput again when the
\* arguments could not be parsed.
DispatchUsageOnEveryError(p) ==
    IF p.err # NilErr
    THEN [UsageToErrorOutput(p.c) EXCEPT !.pc = "returned",
                                         !.err = Wrap("parsing arguments", p.err)]
    ELSE IF p.c.action = "help"
    THEN [UsageToOutput(p.c) EXCEPT !.pc = "returned"]
    ELSE IF p.c.action \in {ActionCompress, ActionDecompress}
    THEN [p.c EXCEPT !.pc = "config"]
    ELSE [UsageToErrorOutput(p.c) EXCEPT !.pc = "returned",
                                         !.err = <<"no action specified">>]

\* Run after parseArgs: its error is returned; help writes the usage to Output;
\* an action goes on to runAction; no action writes the usage to ErrorOutput.
Dispatch(p) ==
    IF p.err # NilErr
    THEN [p.c EXCEPT !.pc = "returned", !.err = Wrap("parsing arguments", p.err)]
    ELSE IF p.c.action = "help"
    THEN [UsageToOutput(p.c) EXCEPT !.pc = "returned"]
    ELSE IF p.c.action \in {ActionCompress, ActionDecompress}
    THEN [p.c EXCEPT !.pc = "config"]
    ELSE [UsageToErrorOutput(p.c) EXCEPT !.pc = "returned",
                                         !.err = <<"no action specified">>]

\* Mutant of readConfig: a file that cannot be read is taken as a missing one.
readConfigToleratesAll(c, f) ==
    IF f.st = "invalid"
    THEN [c |-> c, err |-> <<"decoding config from file", "yaml">>]
    ELSE [c |-> [c EXCEPT !.format = IF @ = <<>> /\ f.st = "ok" THEN f.format ELSE @],
          err |-> NilErr]

\* readConfig, f being the file at c.configPath: os.ReadFile may fail with
\* not-exist only; no bytes decode to the zero Config; the format of the file is
\* taken when c.format is empty.
readConfig(c, f) ==
    IF f.st = "unreadable"
    THEN [c |-> c, err |-> <<"reading configuration file", "permission denied">>]
    ELSE IF f.st = "invalid"
    THEN [c |-> c, err |-> <<"decoding config from file", "yaml">>]
    ELSE [c |-> [c EXCEPT !.format = IF @ = <<>> /\ f.st = "ok" THEN f.format ELSE @],
          err |-> NilErr]

\* Mutant of selectUserInput: the file is opened only when there is no Input.
selectUserInputPrefersStream(c, f) ==
    IF c.inputPath = <<>> /\ c.Input = "nil"
    THEN [input |-> "none", err |-> <<"either input or input path must be defined">>]
    ELSE IF c.inputPath # <<>> /\ c.Input = "nil"
    THEN IF f.st # "ok"
         THEN [input |-> "none", err |-> <<"opening input file", "open">>]
         ELSE [input |-> "file", err |-> NilErr]
    ELSE [input |-> "stream", err |-> NilErr]

\* selectUserInput, f being the file at c.inputPath.
selectUserInput(c, f) ==
    IF c.inputPath = <<>> /\ c.Input = "nil"
    THEN [input |-> "none", err |-> <<"either input or input path must be defined">>]
    ELSE IF c.inputPath # <<>>
    THEN IF f.st # "ok"
         THEN [input |-> "none", err |-> <<"opening input file", "open">>]
         ELSE [input |-> "file", err |-> NilErr]
    ELSE [input |-> "stream", err |-> NilErr]

\* The call runAction makes on the client, and what its input yields.
CliCalls(c) ==
    [shape |-> c.action,
     data |-> [k \in Trips |-> IF k # 1 THEN <<>>
                               ELSE IF c.input = "file" THEN FileData ELSE TestData],
     tail |-> "eof", mode |-> "drain",
     enc |-> IF c.input = "file" THEN c.inFile.enc ELSE "raw"]

\* Before Run: the fields of the Cli are chosen, no client is made.
InitCli ==
    /\ proc = NoProc
    /\ tt = NoTesting
    /\ cli \in {NewCli(a, o, e, i) : a \in ArgLists, o \in {"nil", "buffer", "failing"},
                                     e \in {"nil", "buffer"}, i \in {"nil", "stream"}}
    /\ configs = <<>>
    /\ client = NilClient
    /\ nerr = NilErr
    /\ sc = NoCalls
    /\ cancelled = FALSE
    /\ inrem = [k \in Trips |-> <<>>]
    /\ cpc = [k \in Trips |-> IF k = 1 THEN "new" ELSE "done"]
    /\ out = [k \in Trips |-> <<>>]
    /\ rerr = [k \in Trips |-> NilErr]
    /\ got = [i \in Ops |-> <<>>]
    /\ returned = [i \in Ops |-> FALSE]
    /\ ctorfail = [i \in Ops |-> FALSE]
    /\ bg = [i \in Ops |-> "idle"]
    /\ ret = [i \in Ops |-> "rd"]
    /\ cur = [i \in Ops |-> <<>>]
    /\ val = [i \in Ops |-> NilErr]
    /\ zw = [i \in Ops |-> NewGzWriter]
    /\ zr = [i \in Ops |-> NewGzReader]
    /\ pipe = [i \in Ops |-> EmptyPipe]
    /\ slot = [i \in Ops |-> <<>>]
    /\ ndep = [i \in Ops |-> 0]
    /\ drain = [i \in Ops |-> NotEnded]
    /\ clo = [i \in Ops |-> NotEnded]

\* Run up to the call of runAction: validate, the environment, the arguments.
Run ==
    /\ cli.pc = "run"
    /\ IF CliValidate(cli) # NilErr
       THEN cli' = [cli EXCEPT !.pc = "returned",
                               !.err = Wrap("validating CLI configuration", CliValidate(cli))]
       ELSE \E e \in EnvFormats :
              cli' = Dispatch(parseArgs([cli EXCEPT !.env = e, !.format = e,
                                                    !.configPath = DefaultConfigPath],
                                        Tail(cli.Args)))
    /\ UNCHANGED <<proc, tt, configs, nerr, client, sc, cancelled, inrem, cpc, out, rerr, got,
                   returned, ctorfail, bg, ret, cur, val, zw, zr, pipe, slot, ndep,
                   drain, clo>>

\* runAction: c.readConfig().
RunReadConfig ==
    /\ cli.pc = "config"
    /\ \E f \in ConfigFiles :
         LET r == readConfig([cli EXCEPT !.cfgFile = f], f) IN
         cli' = IF r.err # NilErr
                THEN [r.c EXCEPT !.pc = "returned",
                                 !.err = Wrap("reading configuration", r.err)]
                ELSE [r.c EXCEPT !.pc = "input"]
    /\ UNCHANGED <<proc, tt, configs, nerr, client, sc, cancelled, inrem, cpc, out, rerr, got,
                   returned, ctorfail, bg, ret, cur, val, zw, zr, pipe, slot, ndep,
                   drain, clo>>

\* runAction: c.selectUserInput(c.Input). Without an input path no file is looked at.
RunSelectInput ==
    /\ cli.pc = "input"
    /\ \E f \in IF cli.inputPath = <<>> THEN {NoFile} ELSE InputFiles :
         LET r == selectUserInput(cli, f) IN
         cli' = IF r.err # NilErr
                THEN [cli EXCEPT !.inFile = f, !.pc = "returned",
                                 !.err = Wrap("selecting user input", r.err)]
                ELSE [cli EXCEPT !.inFile = f, !.input = r.input, !.pc = "client"]
    /\ UNCHANGED <<proc, tt, configs, nerr, client, sc, cancelled, inrem, cpc, out, rerr, got,
                   returned, ctorfail, bg, ret, cur, val, zw, zr, pipe, slot, ndep,
                   drain, clo>>

\* runAction: compressor.NewClient with the format alone; then the call is chosen.
RunNewClient ==
    LET given == <<[Format |-> cli.format, Compressor |-> "nil", Decompressor |-> "nil"]>>
        r == NewClient(given)
    IN
    /\ cli.pc = "client"
    /\ configs' = given
    /\ client' = r.client
    /\ nerr' = r.err
    /\ IF r.err # NilErr
       THEN /\ cli' = [cli EXCEPT !.pc = "returned",
                                  !.err = <<"creating compressor client", r.err[1].text>>]
            /\ UNCHANGED <<sc, inrem, cpc>>
       ELSE /\ cli' = [cli EXCEPT !.pc = "copy"]
            /\ sc' = CliCalls(cli)
            /\ inrem' = [k \in Trips |-> Literal(sc'.data[k], sc'.enc)]
            /\ cpc' = [cpc EXCEPT ![1] =
                         IF cli.action = ActionCompress THEN "start" ELSE "calld"]
    /\ UNCHANGED <<proc, tt, cancelled, out, rerr, got, returned, ctorfail, bg, ret, cur, val,
                   zw, zr, pipe, slot, ndep, drain, clo>>

\* io.Copy(c.Output, output) on an Output that takes what is written: one Read
\* and the Write of its bytes.
CopyToOutput ==
    /\ cli.pc = "copy" /\ cli.Output = "buffer"
    /\ CallerRead(1)

\* io.Copy(c.Output, output) on the Output that fails: one Read of the output;
\* chunk keeps the bytes of the last Read that returned some, which are written.
CopyRead ==
    /\ cli.pc = "copy" /\ cli.Output = "failing"
    /\ cpc[1] = "read"
    /\ \E r \in PipeResults(OutOp(1)) :
         /\ pipe' = PipeAfterRead(pipe, OutOp(1), r)
         /\ cli' = CASE r.res = "data" -> [cli EXCEPT !.chunk = r.chunk]
                      [] r.res = "eof" -> cli
                      [] r.res = "ctx" ->
                           [cli EXCEPT !.pc = "returned",
                                       !.err = Wrap("copying action output", <<ErrCanceled>>)]
         /\ rerr' = [rerr EXCEPT ![1] = IF r.res = "ctx" THEN <<ErrCanceled>> ELSE @]
         /\ cpc' = [cpc EXCEPT ![1] = CASE r.res = "data" -> "write"
                                        [] r.res = "eof" -> "recv"
                                        [] r.res = "ctx" -> "done"]
    /\ UNCHANGED <<proc, tt, configs, nerr, client, sc, cancelled, inrem, out, got, returned,
                   ctorfail, bg, ret, cur, val, zw, zr, slot, ndep, drain, clo>>

\* Mutant of CopyWriteFails: the error of the Write is dropped and the copy goes on.
CopyWriteFailsUnnoticed ==
    /\ cli.pc = "copy" /\ cli.Output = "failing"
    /\ cpc[1] = "write"
    /\ cpc' = [cpc EXCEPT ![1] = "read"]
    /\ UNCHANGED <<proc, tt, cli, configs, nerr, client, sc, cancelled, inrem, out, rerr, got, returned,
                   ctorfail, bg, ret, cur, val, zw, zr, pipe, slot, ndep, drain, clo>>

\* The Write of the bytes read fails: io.Copy returns the error of the Write and
\* runAction returns it wrapped, without receiving from errCh.
CopyWriteFails ==
    /\ cli.pc = "copy" /\ cli.Output = "failing"
    /\ cpc[1] = "write"
    /\ cli' = [cli EXCEPT !.pc = "returned",
                          !.err = Wrap("copying action output", <<ErrWrite>>)]
    /\ rerr' = [rerr EXCEPT ![1] = <<ErrWrite>>]
    /\ cpc' = [cpc EXCEPT ![1] = "done"]
    /\ UNCHANGED <<proc, tt, configs, nerr, client, sc, cancelled, inrem, out, got, returned,
                   ctorfail, bg, ret, cur, val, zw, zr, pipe, slot, ndep, drain, clo>>

\* <-errCh, once the copy ended without an error.
RunReceive ==
    /\ cli.pc = "copy"
    /\ CallerRecv(1)

\* Mutant of RunReturn: what was received from errCh is not looked at.
RunReturnDropsOutcome ==
    /\ cli.pc = "copy" /\ cpc[1] = "done"
    /\ cli' = [cli EXCEPT !.pc = "returned",
                          !.err = IF rerr[1] # NilErr
                                  THEN Wrap("copying action output", rerr[1])
                                  ELSE NilErr]
    /\ UNCHANGED <<proc, tt, configs, nerr, client, sc, cancelled, inrem, cpc, out, rerr, got,
                   returned, ctorfail, bg, ret, cur, val, zw, zr, pipe, slot, ndep,
                   drain, clo>>

\* runAction returns: the error of the copy, which ended it before the receive,
\* or what it received from errCh, wrapped when it is an error.
RunReturn ==
    /\ cli.pc = "copy" /\ cpc[1] = "done"
    /\ cli' = [cli EXCEPT !.pc = "returned",
                          !.err = IF rerr[1] # NilErr
                                  THEN Wrap("copying action output", rerr[1])
                                  ELSE IF got[OutOp(1)][1] = NilErr THEN NilErr
                                  ELSE Wrap("running action", got[OutOp(1)][1])]
    /\ UNCHANGED <<proc, tt, configs, nerr, client, sc, cancelled, inrem, cpc, out, rerr, got,
                   returned, ctorfail, bg, ret, cur, val, zw, zr, pipe, slot, ndep,
                   drain, clo>>

\* Run, and the goroutine of the call it makes; the context does not fire.
NextCli ==
    \/ Run
    \/ RunReadConfig
    \/ RunSelectInput
    \/ RunNewClient
    \/ CopyToOutput
    \/ CopyRead
    \/ CopyWriteFails
    \/ RunReceive
    \/ RunReturn
    \/ \E k \in Trips : CallCompress(k)
    \/ \E k \in Trips : CallDecompress(k)
    \/ \E k \in Trips : Construct(k)
    \/ \E k \in Trips : DecompressReturn(k)
    \/ \E i \in Ops : CompressRead(i)
    \/ \E i \in Ops : CompressWrite(i)
    \/ \E i \in Ops : WriteDone(i)
    \/ \E i \in Ops : CompressClose(i)
    \/ \E i \in Ops : CompressTrailer(i)
    \/ \E i \in Ops : ClosePipe(i)
    \/ \E i \in Ops : Deposit(i)
    \/ \E i \in Ops : DecompressCopy(i)
    \/ \E i \in Ops : GzipRead(i)
    \/ \E i \in Ops : DecompressClose(i)

CliSpec == InitCli /\ [][NextCli]_vars

\* ---------------------------------------------------- the value arguments

\* The arguments that reach parseValueArgs, as their pieces between "=": the
\* ones of ArgTokens, a flag without "=", a flag followed by another letter, an
\* unknown flag with a value, and values that hold a "=" themselves
\* (--input=a=b, --config=c=).
ValueTokens ==
    {<<"--format", FormatNoop>>, <<"--format", <<>>>>,
     <<"--config", OtherConfigPath>>, <<"--input", InputPath>>,
     <<"--input", <<"a">>, <<"b">>>>, <<"--config", <<"c">>, <<>>>>,
     <<"--format">>, <<"--inputs", InputPath>>,
     <<"--bogus">>, <<"--bogus", <<"x">>>>}

\* In Run before parseArgs, with one argument: format holds what the environment
\* gave; the two paths hold what Run sets or what an earlier argument stored.
InitParse ==
    /\ proc = NoProc
    /\ tt = NoTesting
    /\ cli \in {[NewCli(<<<<"testCommand">>, a>>, "buffer", "buffer", "stream")
                   EXCEPT !.pc = "args", !.env = e, !.format = e,
                          !.configPath = cp, !.inputPath = ip] :
                 a \in ValueTokens, e \in EnvFormats,
                 cp \in {DefaultConfigPath, OtherConfigPath},
                 ip \in {<<>>, InputPath}}
    /\ configs = <<>>
    /\ client = NilClient
    /\ nerr = NilErr
    /\ sc = NoCalls
    /\ cancelled = FALSE
    /\ inrem = [k \in Trips |-> <<>>]
    /\ cpc = [k \in Trips |-> IF k = 1 THEN "new" ELSE "done"]
    /\ out = [k \in Trips |-> <<>>]
    /\ rerr = [k \in Trips |-> NilErr]
    /\ got = [i \in Ops |-> <<>>]
    /\ returned = [i \in Ops |-> FALSE]
    /\ ctorfail = [i \in Ops |-> FALSE]
    /\ bg = [i \in Ops |-> "idle"]
    /\ ret = [i \in Ops |-> "rd"]
    /\ cur = [i \in Ops |-> <<>>]
    /\ val = [i \in Ops |-> NilErr]
    /\ zw = [i \in Ops |-> NewGzWriter]
    /\ zr = [i \in Ops |-> NewGzReader]
    /\ pipe = [i \in Ops |-> EmptyPipe]
    /\ slot = [i \in Ops |-> <<>>]
    /\ ndep = [i \in Ops |-> 0]
    /\ drain = [i \in Ops |-> NotEnded]
    /\ clo = [i \in Ops |-> NotEnded]

\* c.parseArgs() over the arguments after the command name.
ParseArgs ==
    /\ cli.pc = "args"
    /\ LET p == parseArgs(cli, Tail(cli.Args)) IN
       cli' = [p.c EXCEPT !.pc = "parsed", !.err = p.err]
    /\ UNCHANGED <<proc, tt, configs, nerr, client, sc, cancelled, inrem, cpc, out, rerr, got,
                   returned, ctorfail, bg, ret, cur, val, zw, zr, pipe, slot, ndep,
                   drain, clo>>

ParseSpec == InitParse /\ [][ParseArgs]_vars

\* ------------------------------------------------------------- the process

\* Most signals the process is sent.
MaxSignals == 2

\* The command lines of the process: those of the tests of the Cli, os.Args
\* holding the name of the command first.
MainArgLists ==
    {<<<<"testCommand">>>> \o l :
        l \in {<<>>, <<<<ActionCompress>>>>, <<<<ActionDecompress>>>>,
               <<<<"--help">>>>, <<<<"--bogus">>>>,
               <<<<ActionCompress>>, <<"--format", FormatNoop>>>>,
               <<<<ActionDecompress>>, <<"--input", InputPath>>>>}}

\* In run(), signalContext() has returned and cli.Run is about to run: the
\* signals are notified on sigs, which is empty, the goroutine waits on it, and
\* the Cli is on the standard streams, of which the output may fail.
InitMain ==
    /\ proc = [pc |-> "running", nsig |-> 0, sigs |-> <<>>, gor |-> "wait",
               code |-> 0 - 1, stderr |-> 0]
    /\ tt = NoTesting
    /\ cli \in {NewCli(a, o, "buffer", "stream") :
                 a \in MainArgLists, o \in {"buffer", "failing"}}
    /\ configs = <<>>
    /\ client = NilClient
    /\ nerr = NilErr
    /\ sc = NoCalls
    /\ cancelled = FALSE
    /\ inrem = [k \in Trips |-> <<>>]
    /\ cpc = [k \in Trips |-> IF k = 1 THEN "new" ELSE "done"]
    /\ out = [k \in Trips |-> <<>>]
    /\ rerr = [k \in Trips |-> NilErr]
    /\ got = [i \in Ops |-> <<>>]
    /\ returned = [i \in Ops |-> FALSE]
    /\ ctorfail = [i \in Ops |-> FALSE]
    /\ bg = [i \in Ops |-> "idle"]
    /\ ret = [i \in Ops |-> "rd"]
    /\ cur = [i \in Ops |-> <<>>]
    /\ val = [i \in Ops |-> NilErr]
    /\ zw = [i \in Ops |-> NewGzWriter]
    /\ zr = [i \in Ops |-> NewGzReader]
    /\ pipe = [i \in Ops |-> EmptyPipe]
    /\ slot = [i \in Ops |-> <<>>]
    /\ ndep = [i \in Ops |-> 0]
    /\ drain = [i \in Ops |-> NotEnded]
    /\ clo = [i \in Ops |-> NotEnded]

\* The process is sent SIGINT or SIGTERM: signal.Notify's send on sigs does not
\* wait, a signal that finds sigs full is dropped.
Signal ==
    /\ proc.pc = "running" /\ proc.nsig < MaxSignals
    /\ \E s \in {"SIGINT", "SIGTERM"} :
         proc' = [proc EXCEPT !.nsig = @ + 1,
                              !.sigs = IF Len(@) < 1 THEN Append(@, s) ELSE @]
    /\ UNCHANGED <<tt, cli, configs, nerr, client, sc, cancelled, inrem, cpc, out, rerr, got,
                   returned, ctorfail, bg, ret, cur, val, zw, zr, pipe, slot, ndep,
                   drain, clo>>

\* The goroutine of signalContext: <-sigs; cancel().
SignalCancel ==
    /\ proc.pc = "running" /\ proc.gor = "wait"
    /\ proc.sigs # <<>>
    /\ proc' = [proc EXCEPT !.sigs = Tail(@), !.gor = "done"]
    /\ cancelled' = TRUE
    /\ UNCHANGED <<tt, cli, configs, nerr, client, sc, inrem, cpc, out, rerr, got,
                   returned, ctorfail, bg, ret, cur, val, zw, zr, pipe, slot, ndep,
                   drain, clo>>

\* Mutant of Exit: run writes the error and returns 0 all the same.
ExitAlwaysZero ==
    /\ proc.pc = "running" /\ cli.pc = "returned"
    /\ proc' = [proc EXCEPT !.pc = "exited", !.code = 0,
                            !.stderr = IF cli.err = NilErr THEN @ ELSE @ + 1]
    /\ UNCHANGED <<tt, cli, configs, nerr, client, sc, cancelled, inrem, cpc, out, rerr, got,
                   returned, ctorfail, bg, ret, cur, val, zw, zr, pipe, slot, ndep,
                   drain, clo>>

\* cli.Run has returned: run writes its error to os.Stderr and returns 1, or
\* returns 0, and main exits with what run returned.
Exit ==
    /\ proc.pc = "running" /\ cli.pc = "returned"
    /\ proc' = [proc EXCEPT !.pc = "exited",
                            !.code = IF cli.err = NilErr THEN 0 ELSE 1,
                            !.stderr = IF cli.err = NilErr THEN @ ELSE @ + 1]
    /\ UNCHANGED <<tt, cli, configs, nerr, client, sc, cancelled, inrem, cpc, out, rerr, got,
                   returned, ctorfail, bg, ret, cur, val, zw, zr, pipe, slot, ndep,
                   drain, clo>>

\* The process: the Cli and its goroutines until main exits, the signals, and
\* what a context that is done makes of a Read and a Write.
NextMain ==
    \/ proc.pc = "running" /\ NextCli
    \/ proc.pc = "running" /\ \E i \in Ops : LeakedRead(i)
    \/ proc.pc = "running" /\ \E i \in Ops : WriteCancelled(i)
    \/ Signal
    \/ SignalCancel
    \/ Exit

MainSpec == InitMain /\ [][NextMain]_vars

\* ------------------------------------------------------------ the testutil

\* Times are whole seconds since the zero time, up to MaxTime.
MaxTime == 24
timeoutGracePeriod == 10

\* time.Time.Truncate: t rounded down to a multiple of d since the zero time.
Truncate(t, d) == t - (t % d)

\* A test before it calls ContextWithDeadline: t.Deadline() gives its deadline,
\* or the zero time and false when it has none; the clock is at or before it.
InitTestutil ==
    /\ proc = NoProc
    /\ cli = NoCli
    /\ tt \in {[pc |-> "test", ok |-> o, deadline |-> d, now |-> n,
                 helper |-> 0, cleanups |-> 0,
                 ctxHasDeadline |-> FALSE, ctxDeadline |-> 0,
                 done |-> FALSE, cause |-> "none"] :
                o \in BOOLEAN, d \in 0..MaxTime, n \in 0..MaxTime}
    /\ tt.ok <=> tt.deadline # 0
    /\ tt.ok => tt.now <= tt.deadline
    /\ configs = <<>>
    /\ client = NilClient
    /\ nerr = NilErr
    /\ sc = NoCalls
    /\ cancelled = FALSE
    /\ inrem = [k \in Trips |-> <<>>]
    /\ cpc = [k \in Trips |-> "done"]
    /\ out = [k \in Trips |-> <<>>]
    /\ rerr = [k \in Trips |-> NilErr]
    /\ got = [i \in Ops |-> <<>>]
    /\ returned = [i \in Ops |-> FALSE]
    /\ ctorfail = [i \in Ops |-> FALSE]
    /\ bg = [i \in Ops |-> "idle"]
    /\ ret = [i \in Ops |-> "rd"]
    /\ cur = [i \in Ops |-> <<>>]
    /\ val = [i \in Ops |-> NilErr]
    /\ zw = [i \in Ops |-> NewGzWriter]
    /\ zr = [i \in Ops |-> NewGzReader]
    /\ pipe = [i \in Ops |-> EmptyPipe]
    /\ slot = [i \in Ops |-> <<>>]
    /\ ndep = [i \in Ops |-> 0]
    /\ drain = [i \in Ops |-> NotEnded]
    /\ clo = [i \in Ops |-> NotEnded]

\* Mutant of ContextWithDeadline: the grace period is added to the deadline.
ContextWithDeadlineAddsGrace ==
    /\ tt.pc = "test"
    /\ LET deadline == tt.deadline + timeoutGracePeriod IN
       tt' = [tt EXCEPT !.pc = "called", !.helper = @ + 1, !.cleanups = @ + 1,
                        !.ctxHasDeadline = tt.ok,
                        !.ctxDeadline = IF tt.ok THEN deadline ELSE 0,
                        !.done = tt.ok /\ deadline <= tt.now,
                        !.cause = IF tt.ok /\ deadline <= tt.now
                                  THEN "deadline exceeded" ELSE "none"]
    /\ UNCHANGED <<proc, cli, configs, nerr, client, sc, cancelled, inrem, cpc, out, rerr, got,
                   returned, ctorfail, bg, ret, cur, val, zw, zr, pipe, slot, ndep,
                   drain, clo>>

\* ContextWithDeadline(t): t.Helper(); a context with a cancel function; when
\* t.Deadline() gives one, a context whose deadline is it truncated to the
\* grace period, done at once if that is not after now; t.Cleanup(cancel) with
\* the cancel function of the context returned.
ContextWithDeadline ==
    /\ tt.pc = "test"
    /\ LET deadline == Truncate(tt.deadline, timeoutGracePeriod) IN
       tt' = [tt EXCEPT !.pc = "called", !.helper = @ + 1, !.cleanups = @ + 1,
                        !.ctxHasDeadline = tt.ok,
                        !.ctxDeadline = IF tt.ok THEN deadline ELSE 0,
                        !.done = tt.ok /\ deadline <= tt.now,
                        !.cause = IF tt.ok /\ deadline <= tt.now
                                  THEN "deadline exceeded" ELSE "none"]
    /\ UNCHANGED <<proc, cli, configs, nerr, client, sc, cancelled, inrem, cpc, out, rerr, got,
                   returned, ctorfail, bg, ret, cur, val, zw, zr, pipe, slot, ndep,
                   drain, clo>>

\* A second passes; the timer of a context with a deadline ends it when the
\* deadline is reached.
Tick ==
    /\ tt.pc \in {"test", "called"} /\ tt.now < MaxTime
    /\ LET expires == /\ tt.ctxHasDeadline /\ ~tt.done
                      /\ tt.ctxDeadline <= tt.now + 1
       IN  tt' = [tt EXCEPT !.now = @ + 1,
                            !.done = @ \/ expires,
                            !.cause = IF expires THEN "deadline exceeded" ELSE @]
    /\ UNCHANGED <<proc, cli, configs, nerr, client, sc, cancelled, inrem, cpc, out, rerr, got,
                   returned, ctorfail, bg, ret, cur, val, zw, zr, pipe, slot, ndep,
                   drain, clo>>

\* The test ends: the functions given to t.Cleanup run, here cancel.
Cleanup ==
    /\ tt.pc = "called"
    /\ tt' = [tt EXCEPT !.pc = "ended", !.done = TRUE,
                        !.cause = IF tt.done THEN @ ELSE "canceled"]
    /\ UNCHANGED <<proc, cli, configs, nerr, client, sc, cancelled, inrem, cpc, out, rerr, got,
                   returned, ctorfail, bg, ret, cur, val, zw, zr, pipe, slot, ndep,
                   drain, clo>>

NextTestutil == ContextWithDeadline \/ Tick \/ Cleanup

TestutilSpec == InitTestutil /\ [][NextTestutil]_vars

\* ----------------------------------------------------------------- claims

\* The value sent on the errCh of call i, wherever it is now.
Deposited(i) == slot[i] \o got[i]
\* Call i is over: its goroutine has ended, or it returned without starting one.
Finished(i) == bg[i] = "done" \/ (ctorfail[i] /\ returned[i])
\* The built-in codecs: gzip, the default, and noop.
BuiltIn == client.compressor = client.decompressor /\ client.compressor \in {"gzip", "noop"}
\* Nothing to read on the output of call j, and its write end is open.
NoData(j) == ~pipe[j].closed /\ ~(pipe[j].busy /\ pipe[j].wr # <<>>)

\* C1: while the context has not fired, a caller that drains the output stream and
\* then receives from errCh is never blocked for good: whenever it is reading or
\* receiving, some step of the system other than a cancellation can be taken.
C1_DrainThenReceiveNeverBlocks ==
    \A k \in ActiveTrips :
        (~cancelled /\ sc.mode = "drain" /\ cpc[k] \in {"read", "recv"})
            => ENABLED Progress

\* C2: the write end of the pipe is closed on every exit path of the background
\* goroutine: once the goroutine of a call has ended, a reader of its output
\* stream gets end of stream.
C2_PipeClosedOnEveryExit ==
    \A i \in Ops : bg[i] = "done" => pipe[i].closed

\* C3: for a call that has returned, no state has a value sent on errCh while the
\* write end of the pipe is still open, and no write to the pipe is pending once
\* the write end is closed.
C3_DepositAfterClose ==
    \A i \in Ops :
        /\ (returned[i] /\ ndep[i] > 0) => pipe[i].closed
        /\ pipe[i].closed => bg[i] # "wr"

\* C4: exactly one value is ever sent on the errCh of a call: never two, and one
\* once the call is over, whether it ended in success, in an error, in a failed
\* decompressor constructor or in a cancellation.
C4_ExactlyOneDeposit ==
    \A i \in Ops :
        /\ ndep[i] <= 1
        /\ Len(Deposited(i)) = ndep[i]
        /\ Finished(i) => ndep[i] = 1

C4_Witness ==
    \E i \in Ops :
        /\ bg[i] = "done" /\ ndep[i] = 1
        /\ cancelled /\ ErrorsIs(Deposited(i)[1], ErrCanceled)

\* C5: when the decompressor constructor fails, no goroutine is started for the
\* call, and once Decompress has returned the write end of its pipe is closed, so
\* that a Read of the output returns end of stream (or, the context being done,
\* its error) and never blocks, and errCh holds, until the caller receives it, one
\* error that wraps the constructor's error in "creating decompressor".
C5_ConstructorFailure ==
    \A i \in Ops :
        ctorfail[i] =>
            /\ bg[i] = "idle"
            /\ returned[i] =>
                 /\ pipe[i].closed
                 /\ [res |-> "eof", chunk |-> <<>>] \in PipeResults(i)
                 /\ \A r \in PipeResults(i) : r.res # "data"
                 /\ Len(Deposited(i)) = 1
                 /\ Len(Deposited(i)[1]) >= 2
                 /\ Deposited(i)[1][1] = "creating decompressor"

C5_Witness ==
    \E k \in Trips :
        /\ ctorfail[Decomp(k)] /\ returned[Decomp(k)]
        /\ cpc[k] = "recv" /\ sc.mode = "drain" /\ out[k] = <<>>
        /\ slot[Decomp(k)] # <<>>


\* The input never ends and is data of the codec: any bytes for a Compress and for
\* the noop decompressor, a gzip stream for gzip.NewReader.
EndlessInput ==
    /\ sc.tail = "inf"
    /\ (sc.shape = "decompress" /\ client.decompressor = "gzip") => sc.enc = "gz"

C7_ReadUnblocksOnCancel ==
    \A k \in ActiveTrips :
        /\ (cancelled /\ cpc[k] = "read" /\ NoData(OutOp(k))) =>
              /\ PipeResults(OutOp(k)) = {[res |-> "ctx", chunk |-> <<>>]}
              /\ ENABLED CallerRead(k)
        /\ rerr[k] # NilErr => rerr[k] = <<ErrCanceled>> /\ cancelled /\ cpc[k] = "done"

C7_Witness ==
    \E k \in Trips :
        /\ rerr[k] = <<ErrCanceled>> /\ cpc[k] = "done"
        /\ NoData(OutOp(k)) /\ bg[OutOp(k)] \in {"rd", "zw"}

\* The message put on an error of io.Copy and on an error of closing the transform.
CopyMsg(i) == IF IsCompress(i) THEN "compressing data" ELSE "decompressing data"
CloseMsg(i) == IF IsCompress(i) THEN "closing compressor" ELSE "closing decompressor"

\* C8: the value a goroutine sends on errCh is the error of draining the input,
\* wrapped, when draining failed; the error of closing the transform, wrapped, when
\* draining succeeded and closing failed; and nil only when both succeeded.
C8_ErrorPrecedence ==
    \A i \in Ops :
        (bg[i] = "done" /\ Len(Deposited(i)) = 1) =>
            LET v == Deposited(i)[1] IN
            /\ drain[i].st \in {"ok", "err"}
            /\ drain[i].st = "err" =>
                 v = Wrap(CopyMsg(i), drain[i].err) /\ clo[i].st = "none"
            /\ (drain[i].st = "ok" /\ clo[i].st = "err") =>
                 v = Wrap(CloseMsg(i), clo[i].err)
            /\ (drain[i].st = "ok" /\ clo[i].st = "ok") => v = NilErr
            /\ v = NilErr => (drain[i].st = "ok" /\ clo[i].st = "ok")
            /\ drain[i].st = "ok" => clo[i].st \in {"ok", "err"}

C8_Witness ==
    \E i \in Ops :
        /\ ~IsCompress(i) /\ bg[i] = "done" /\ ~cancelled
        /\ drain[i].st = "ok" /\ clo[i].st = "err"
        /\ Deposited(i) = <<Wrap("closing decompressor", <<ErrTest>>)>>

\* s is the beginning of t.
IsPrefix(s, t) == Len(s) <= Len(t) /\ s = SubSeq(t, 1, Len(s))

\* C9: round trips run concurrently on one client each yield their own input and
\* nil on both error channels, and at no time does the output of a round trip
\* hold a byte that is not of its own input.
C9_ConcurrentRoundTrips ==
    sc.shape = "concurrent" =>
        \A k \in Trips :
            /\ IsPrefix(out[k], sc.data[k])
            /\ rerr[k] = NilErr
            /\ cpc[k] = "done" =>
                 /\ out[k] = sc.data[k]
                 /\ got[Comp(k)] = <<NilErr>>
                 /\ got[Decomp(k)] = <<NilErr>>

C9_Witness ==
    /\ sc.shape = "concurrent" /\ client.compressor = "gzip"
    /\ \A k \in Trips : cpc[k] = "done" /\ out[k] = sc.data[k] /\ out[k] # <<>>
    /\ \E k \in Trips : out[k] # out[1]

\* C10: with the gzip codec and with the noop codec, and a context that does not
\* fire, decompressing the output of Compress(D) yields D: the caller that drained
\* the output of the Decompress has read exactly D, and both error channels give
\* nil.
C10_RoundTrip ==
    (sc.shape = "roundtrip" /\ BuiltIn /\ sc.tail = "eof" /\ ~cancelled) =>
        /\ cpc[1] \in {"recv", "done"} =>
             /\ rerr[1] = NilErr
             /\ sc.mode = "drain" => out[1] = sc.data[1]
        /\ \A i \in {Comp(1), Decomp(1)} :
             \A n \in 1..Len(Deposited(i)) : Deposited(i)[n] = NilErr
        /\ cpc[1] = "done" => got[Comp(1)] = <<NilErr>> /\ got[Decomp(1)] = <<NilErr>>

C10_Witness ==
    /\ sc.shape = "roundtrip" /\ client.decompressor = "gzip" /\ ~cancelled
    /\ sc.mode = "drain" /\ cpc[1] = "done"
    /\ Len(sc.data[1]) = MaxLen /\ out[1] = sc.data[1]
    /\ got[Comp(1)] = <<NilErr>> /\ got[Decomp(1)] = <<NilErr>>

\* The configuration that asks for the noop Format and sets no override.
NoopFormatConfig == [Format |-> FormatNoop, Compressor |-> "nil", Decompressor |-> "nil"]

\* C11: on the client NewClient builds for the noop Format, the bytes read from the
\* output of Compress(D) and from the output of Decompress(D) are at every moment
\* the beginning of D, and are D once the caller has read the end of the stream:
\* nothing is added, dropped, reordered or repeated across the pipe writes.
C11_NoopPassthrough ==
    (configs = <<NoopFormatConfig>> /\ sc.shape \in {"compress", "decompress"}
        /\ sc.tail # "inf") =>
        LET D == Literal(sc.data[1], sc.enc) IN
        /\ IsPrefix(out[1], D)
        /\ (sc.mode = "drain" /\ cpc[1] \in {"recv", "done"} /\ rerr[1] = NilErr) =>
             out[1] = D

C11_Witness ==
    /\ configs = <<NoopFormatConfig>> /\ sc.shape = "compress" /\ sc.mode = "drain"
    /\ Len(sc.data[1]) = MaxLen /\ out[1] = sc.data[1]
    /\ cpc[1] = "done" /\ got[Comp(1)] = <<NilErr>>

\* C12: while the context has not fired, the bytes of the pipe writes that have
\* returned never exceed the bytes the reader of the pipe has read: the bytes read
\* beyond them are those of the one write in progress, and a pipe with no write
\* in progress has had every written byte read.
C12_Backpressure ==
    ~cancelled =>
        \A i \in Ops :
            /\ pipe[i].lead <= 0
            /\ pipe[i].lead + pipe[i].wlen = Len(pipe[i].wr)
            /\ ~pipe[i].busy => pipe[i].lead = 0 /\ pipe[i].wr = <<>>

C12_Witness ==
    /\ ~cancelled
    /\ \E i \in Ops :
         /\ bg[i] = "wr" /\ pipe[i].wlen = GzBuf
         /\ Len(pipe[i].wr) = GzBuf - RdBuf /\ pipe[i].lead = 0 - RdBuf

\* The transform of call i failed: reading the input, closing the transform, or
\* constructing the decompressor.
TransformFailed(i) == drain[i].st = "err" \/ clo[i].st = "err" \/ ctorfail[i]

\* C13: until the caller has received from errCh, no Read of the output stream
\* returns an error of the transform: the only error a Read returns is that of the
\* context, once it is done; and the failure of a call that is over is the value
\* sent on its errCh.
C13_NoInBandError ==
    \A k \in ActiveTrips :
        /\ got[OutOp(k)] = <<>> =>
             /\ rerr[k] \in {NilErr, <<ErrCanceled>>}
             /\ ~cancelled => rerr[k] = NilErr
        /\ \A i \in ActiveOps :
             (TransformFailed(i) /\ Finished(i)) =>
                 Len(Deposited(i)) = 1 /\ Deposited(i)[1] # NilErr

C13_Witness ==
    \E k \in Trips :
        /\ ~cancelled /\ sc.mode = "drain" /\ cpc[k] = "recv" /\ rerr[k] = NilErr
        /\ clo[OutOp(k)].st = "err" /\ got[OutOp(k)] = <<>>
        /\ slot[OutOp(k)] = <<Wrap(CloseMsg(OutOp(k)), <<ErrTest>>)>>

\* The literal input of round trip k before any Read of it.
FirstInput(k) ==
    IF sc.tail = "inf" /\ sc.enc = "gz" THEN Literal(<<>>, "gzinf")
    ELSE Literal(sc.data[k], sc.enc)

\* Nothing was read from the input of call i.
InputUnread(i) ==
    /\ zr[i] = NewGzReader
    /\ ~FromPipe(i) => inrem[TripOf(i)] = FirstInput(TripOf(i))

\* No copying has begun for call i: no goroutine, no write to its pipe.
NotCopying(i) == bg[i] = "idle" /\ pipe[i].wlen = 0 /\ ~pipe[i].busy

NoOverrides(c) == c.Compressor = "nil" /\ c.Decompressor = "nil"
BothOverrides(c) == c.Compressor # "nil" /\ c.Decompressor # "nil"
OneOverride(c) == ~NoOverrides(c) /\ ~BothOverrides(c)

\* NewClient has returned to its caller.
NewClientReturned == cpc[1] # "new"

\* No call was made on a client.
NothingCalled ==
    /\ sc = NoCalls
    /\ \A i \in Ops : bg[i] = "idle" /\ ~returned[i] /\ pipe[i] = EmptyPipe

\* C15: NewClient given one configuration that sets exactly one of Compressor and
\* Decompressor, whatever its Format, returns a nil client and an error of the
\* validation; the caller has no client of a built-in codec to call.
C15_PartialOverrideRejected ==
    (NewClientReturned /\ Len(configs) = 1 /\ OneOverride(configs[1])) =>
        /\ client = NilClient
        /\ Len(nerr) = 2
        /\ nerr[1] = Msg("validating configuration")
        /\ NothingCalled

C15_Witness ==
    /\ NewClientReturned /\ client = NilClient
    /\ configs = <<[Format |-> FormatNoop, Compressor |-> "noop", Decompressor |-> "nil"]>>
    /\ nerr = <<Msg("validating configuration"), Msg("decompressor must be configured")>>

\* s occurs in m as a run of consecutive characters.
Contains(m, s) ==
    \E n \in 0..(Len(m) - Len(s)) : SubSeq(m, n + 1, n + Len(s)) = s

\* NewClient was given one configuration with no override and a Format that is not
\* built in.
UnknownFormatAsked ==
    /\ NewClientReturned /\ Len(configs) = 1 /\ NoOverrides(configs[1])
    /\ configs[1].Format \notin {FormatGzip, FormatNoop, <<>>}

Gunzip(s) ==
    LET n == Len(s)
        d == [m \in 1..(n - 3) |-> GzDec(s[m + 1])]
    IN  IF n < 3 THEN [ok |-> FALSE, data |-> <<>>]
        ELSE IF s[1] # GzHeader \/ s[n - 1] # GzFinal
                  \/ \E m \in 2..(n - 2) : ~GzIsEnc(s[m])
        THEN [ok |-> FALSE, data |-> <<>>]
        ELSE [ok |-> s[n] = GzTrailer(CrcOf(d), Len(d) % SizeMod), data |-> d]

\* The arguments that ask for the default codec: none, the zero Config, Format gzip.
DefaultArgs ==
    {<<>>,
     <<[Format |-> <<>>, Compressor |-> "nil", Decompressor |-> "nil"]>>,
     <<[Format |-> FormatGzip, Compressor |-> "nil", Decompressor |-> "nil"]>>}

\* C17: NewClient without a configuration, with the zero configuration and with
\* Format gzip and no overrides returns the same client, that of gzip: a standard
\* gzip reader decodes the output of its Compress to the data compressed, its
\* Decompress of a standard gzip stream gives the data of the stream, and both
\* send nil on errCh.
C17_DefaultIsGzip ==
    (NewClientReturned /\ configs \in DefaultArgs) =>
        /\ nerr = NilErr
        /\ client = [compressor |-> "gzip", decompressor |-> "gzip"]
        /\ (sc.shape = "compress" /\ cpc[1] \in {"recv", "done"}) =>
             /\ Gunzip(out[1]).ok
             /\ Gunzip(out[1]).data = sc.data[1]
        /\ (sc.shape = "decompress" /\ sc.enc = "gz" /\ cpc[1] \in {"recv", "done"}) =>
             out[1] = sc.data[1]
        /\ (cpc[1] = "done" /\ ~(sc.shape = "decompress" /\ sc.enc = "raw")) =>
             got[OutOp(1)] = <<NilErr>>

C17_Witness ==
    /\ NewClientReturned /\ configs = <<>> /\ sc.shape = "compress"
    /\ cpc[1] = "done" /\ got[Comp(1)] = <<NilErr>>
    /\ Len(sc.data[1]) = MaxLen /\ Gunzip(out[1]) = [ok |-> TRUE, data |-> sc.data[1]]

\* C18: NewClient given more than one configuration returns a nil client and an
\* error, whatever the configurations hold; and every NewClient call that returns
\* an error returns a nil client with it, and a client when it returns none.
C18_FailureGivesNilClient ==
    NewClientReturned =>
        /\ Len(configs) > 1 =>
             client = NilClient /\ nerr = <<Msg("only one config can be passed")>>
        /\ nerr # NilErr <=> client = NilClient
        /\ client = NilClient => NothingCalled

C18_Witness ==
    /\ NewClientReturned /\ Len(configs) = MaxConfigs /\ client = NilClient
    /\ BothOverrides(configs[1]) /\ nerr # NilErr

\* C19: NewClient given one configuration that sets both overrides returns no
\* error and the client of those two constructors, whatever the Format, built in
\* or not; the calls on the client run those constructors: a compressor whose
\* Close fails makes Compress send that error.
C19_OverridesUsedVerbatim ==
    (NewClientReturned /\ Len(configs) = 1 /\ BothOverrides(configs[1])) =>
        /\ nerr = NilErr
        /\ client = [compressor |-> configs[1].Compressor,
                     decompressor |-> configs[1].Decompressor]
        /\ \A i \in ActiveOps :
             (bg[i] = "done" /\ ~cancelled) =>
                 LET ctor == IF IsCompress(i) THEN configs[1].Compressor
                             ELSE configs[1].Decompressor
                 IN  Deposited(i) =
                        <<IF ctor = "failclose" THEN Wrap(CloseMsg(i), <<ErrTest>>)
                          ELSE NilErr>>

C19_Witness ==
    /\ NewClientReturned
    /\ configs = <<[Format |-> BadFormat, Compressor |-> "failclose",
                    Decompressor |-> "noop"]>>
    /\ sc.shape = "compress" /\ cpc[1] = "done"
    /\ got[Comp(1)] = <<Wrap("closing compressor", <<ErrTest>>)>>

\* The names a sequence of formats holds.
Names(fs) == {fs[n] : n \in 1..Len(fs)}

\* C20: AvailableFormats is the sequence gzip, noop; NewClient given a Format of
\* that sequence and no overrides returns a client and no error; and a Format that
\* is not empty and that NewClient accepts without overrides is of that sequence.
C20_AvailableFormatsAccepted ==
    /\ Len(AvailableFormats) = 2
    /\ AvailableFormats[1] = FormatGzip /\ AvailableFormats[2] = FormatNoop
    /\ (NewClientReturned /\ Len(configs) = 1 /\ NoOverrides(configs[1])) =>
         /\ configs[1].Format \in Names(AvailableFormats) =>
              nerr = NilErr /\ client # NilClient
         /\ (nerr = NilErr /\ configs[1].Format # <<>>) =>
              configs[1].Format \in Names(AvailableFormats)

C20_Witness ==
    /\ NewClientReturned /\ configs = <<NoopFormatConfig>>
    /\ nerr = NilErr /\ client = [compressor |-> "noop", decompressor |-> "noop"]

\* The input of a lone Decompress is not a gzip stream: bytes that are not a gzip
\* header, nothing at all, or a gzip stream cut before its end.
NotCodecData == sc.shape = "decompress" /\ sc.enc \in {"raw", "trunc"}

\* The error a call that failed returns, and where it happened.
FailureOf(i) ==
    IF ctorfail[i] THEN "creating decompressor"
    ELSE IF drain[i].st = "err" THEN CopyMsg(i)
    ELSE CloseMsg(i)

\* C21: a Decompress of the default codec on input that is not gzip data ends with
\* exactly one error, not nil, sent on errCh; and a call of any client whose
\* constructor, copy or close failed, or whose context fired in the copy, ends with
\* that failure sent on errCh, wrapped with the step that failed.
C21_NonCodecInputFails ==
    \A i \in ActiveOps :
        Finished(i) =>
            /\ (NotCodecData /\ client.decompressor = "gzip") =>
                   /\ TransformFailed(i)
                   /\ Len(Deposited(i)) = 1 /\ Deposited(i)[1] # NilErr
            /\ TransformFailed(i) =>
                   /\ Len(Deposited(i)) = 1
                   /\ Len(Deposited(i)[1]) > 1
                   /\ Head(Deposited(i)[1]) = FailureOf(i)
            /\ ~TransformFailed(i) => Deposited(i) = <<NilErr>>

C21_Witness ==
    /\ NotCodecData /\ client.decompressor = "gzip" /\ sc.enc = "raw"
    /\ sc.data[1] # <<>> /\ sc.mode = "drain" /\ ~cancelled
    /\ cpc[1] = "done" /\ out[1] = <<>> /\ rerr[1] = NilErr
    /\ ErrorsIs(got[Decomp(1)][1], ErrGzHeader)

\* C23: Close of the write end returns nil every time it is called, and a Close of
\* a write end that is closed already leaves it closed and changes nothing a
\* reader of the pipe observes: the results a Read can have and the bytes of a
\* pending write stay as they were.
C23_CloseIdempotent ==
    [][\A j \in Ops :
          pipe'[j].ncl > pipe[j].ncl =>
              /\ pipe'[j].cres = NilErr /\ pipe'[j].closed
              /\ pipe[j].closed =>
                    /\ pipe'[j] = [pipe[j] EXCEPT !.ncl = @ + 1]
                    /\ PipeResults(j)' = PipeResults(j)]_vars

\* The noop compressor is the write end: compressor.Close() closed it, and the
\* goroutine's own Close closed it again; the reader saw the data and its end.
C23_Witness ==
    \E k \in Trips :
        /\ sc.shape = "compress" /\ client.compressor = "noop" /\ ~cancelled
        /\ pipe[Comp(k)].ncl = 2 /\ pipe[Comp(k)].closed
        /\ sc.data[k] # <<>> /\ out[k] = sc.data[k]
        /\ got[Comp(k)] = <<NilErr>>

\* C24: no step of a Compress or Decompress call changes the client, and the
\* client holds the two constructors and nothing else; what a call works with is
\* its own: when Compress returns, the pipe, the errCh and the gzip.Writer of the
\* call are as they are made, whatever other calls on the client have done.
C24_ClientNeverMutated ==
    [][/\ client' = client
       /\ DOMAIN client = {"compressor", "decompressor"}
       /\ \A i \in Ops :
            (IsCompress(i) /\ ~returned[i] /\ returned'[i]) =>
                /\ pipe[SinkOf(i)] = EmptyPipe /\ slot[i] = <<>>
                /\ zw[i] = NewGzWriter /\ ndep[i] = 0]_vars

C24_Witness ==
    /\ sc.shape = "concurrent" /\ client = NewClient(configs).client
    /\ \A k \in Trips : cpc[k] = "done" /\ out[k] = sc.data[k]
    /\ \A i \in Ops : got[i] = <<NilErr>>

\* --------------------------------------------------------- claims of the Cli

\* The arguments after the command name.
Arguments == IF cli.Args = <<>> THEN <<>> ELSE Tail(cli.Args)
\* Validation lets the Cli pass.
ValidCli == cli.Output # "nil" /\ cli.ErrorOutput # "nil" /\ cli.Args # <<>>
\* Kinds of argument.
IsHelp(arg) == arg = <<"--help">>
IsAction(arg) == arg \in {<<ActionCompress>>, <<ActionDecompress>>}
IsValueOf(arg, flag) == Len(arg) >= 2 /\ arg[1] = flag
IsValue(arg) == \E flag \in {"--format", "--config", "--input"} : IsValueOf(arg, flag)
IsUnknown(arg) == ~IsHelp(arg) /\ ~IsAction(arg) /\ ~IsValue(arg)
\* The last argument that gives a value to the flag, 0 when there is none.
LastOf(flag) ==
    LET at == {n \in 1..Len(Arguments) : IsValueOf(Arguments[n], flag)}
    IN  IF at = {} THEN 0 ELSE CHOOSE n \in at : \A m \in at : m <= n
\* What follows the first "=" of that argument, as the user wrote it.
GivenBy(flag) ==
    LET arg == Arguments[LastOf(flag)]
        RECURSIVE Join(_)
        Join(ps) == IF Len(ps) = 1 THEN Head(ps)
                    ELSE Head(ps) \o <<"=">> \o Join(Tail(ps))
    IN  IF LastOf(flag) = 0 THEN <<>> ELSE Join(Tail(arg))
\* Run has returned, or is in runAction.
RunDecided == cli.pc # "run"
\* No call was made on a client and no client was made.
NoActionRun ==
    /\ configs = <<>> /\ client = NilClient /\ sc = NoCalls
    /\ \A i \in Ops : bg[i] = "idle" /\ ~returned[i]
    /\ out[1] = <<>>
\* No input was looked at.
NoInputRead == cli.inFile = NoFile /\ cli.input = "none" /\ inrem[1] = <<>>

\* C22: when a Write of the destination fails, Run returns the destination's
\* error wrapped as the failure of the copy, has received nothing from errCh and
\* has written nothing; the failing Write is never kept waiting, whatever errCh
\* holds.
C22_CopyFailureReturned ==
    /\ (cli.pc = "returned" /\ cli.chunk # <<>>) =>
          /\ cli.err = Wrap("copying action output", <<ErrWrite>>)
          /\ ErrorsIs(cli.err, ErrWrite)
          /\ got[OutOp(1)] = <<>> /\ out[1] = <<>>
    /\ (cli.pc = "copy" /\ cpc[1] = "write") => ENABLED CopyWriteFails

\* The goroutine sent nil on errCh before the Write failed; Run returned the
\* error of the Write and left the nil in errCh.
C22_Witness ==
    /\ cli.pc = "returned" /\ cli.chunk # <<>>
    /\ slot[OutOp(1)] = <<NilErr>> /\ bg[OutOp(1)] = "done"
    /\ ErrorsIs(cli.err, ErrWrite)

\* The first of the sources that is not empty: the --format argument, the
\* environment variable, the format field of the configuration file.
FirstNotEmpty ==
    IF GivenBy("--format") # <<>> THEN GivenBy("--format")
    ELSE IF cli.env # <<>> THEN cli.env
    ELSE IF cli.cfgFile.st = "ok" THEN cli.cfgFile.format
    ELSE <<>>

\* C25: the format NewClient is asked for is that of the first source that is
\* not empty, in the order --format argument, environment variable, configuration
\* file; when all are empty the client is that of the default format.
C25_FormatPrecedence ==
    configs # <<>> =>
        /\ configs[1].Format = FirstNotEmpty
        /\ FirstNotEmpty = <<>> => client = NewClient(<<>>).client

\* C26: a Cli without Output, without ErrorOutput or without arguments makes Run
\* return the validation error at once: no argument was parsed, nothing was written
\* to either output, no file and no input was read, no action was run.
C26_InvalidCliFailsFirst ==
    (~ValidCli /\ RunDecided) =>
        /\ cli.pc = "returned"
        /\ cli.err # NilErr /\ Head(cli.err) = "validating CLI configuration"
        /\ cli.action = "" /\ cli.format = <<>> /\ cli.configPath = <<>>
        /\ cli.inputPath = <<>>
        /\ cli.outWrites = 0 /\ cli.errWrites = 0
        /\ cli.cfgFile = NoFile /\ NoInputRead /\ NoActionRun

C26_Witness ==
    /\ cli.pc = "returned" /\ cli.ErrorOutput = "nil" /\ cli.Output = "buffer"
    /\ cli.Input = "stream"
    /\ \E n \in 1..Len(Arguments) : IsUnknown(Arguments[n])
    /\ \E n \in 1..Len(Arguments) : IsAction(Arguments[n])

\* Run returned an error and wrote the usage to ErrorOutput once, nothing to Output.
UsageError ==
    /\ cli.pc = "returned" /\ cli.err # NilErr
    /\ cli.errWrites = 1 /\ cli.outWrites = 0 /\ out[1] = <<>>
\* Run returned nil and wrote the usage to Output once, nothing to ErrorOutput.
UsageHelp ==
    /\ cli.pc = "returned" /\ cli.err = NilErr
    /\ cli.outWrites = 1 /\ cli.errWrites = 0 /\ out[1] = <<>>
HasHelp == \E n \in 1..Len(Arguments) : IsHelp(Arguments[n])
HasUnknown == \E n \in 1..Len(Arguments) : IsUnknown(Arguments[n])
HasAction == \E n \in 1..Len(Arguments) : IsAction(Arguments[n])
\* Argument n is an action and an action comes before it.
IsSecondAction(n) ==
    IsAction(Arguments[n]) /\ \E m \in 1..(n - 1) : IsAction(Arguments[m])
\* The argument at which parseArgs returns before the end: the first that is
\* --help, unknown, or a second action; 0 when there is none.
Decider ==
    LET at == {n \in 1..Len(Arguments) :
                  IsHelp(Arguments[n]) \/ IsUnknown(Arguments[n]) \/ IsSecondAction(n)}
    IN  IF at = {} THEN 0 ELSE CHOOSE n \in at : \A m \in at : n <= m

\* C27 as stated: with an unknown argument and no --help, or with no action and
\* no --help, Run returns an error and writes the usage to ErrorOutput once; with
\* --help and no unknown argument it returns nil and writes the usage to Output.
C27_UsageOnce ==
    (ValidCli /\ RunDecided) =>
        /\ (HasUnknown /\ ~HasHelp) => UsageError
        /\ (~HasAction /\ ~HasHelp) => UsageError
        /\ (HasHelp /\ ~HasUnknown) => UsageHelp

\* C27, amended: the first argument that is --help, unknown or a second action
\* decides. Unknown: an error, the usage once to ErrorOutput. --help: nil, the
\* usage once to Output. A second action: an error and no usage at all. None of
\* them and no action: an error, the usage once to ErrorOutput.
C27_UsageOnceByFirstDecider ==
    (ValidCli /\ RunDecided) =>
        /\ (Decider # 0 /\ IsUnknown(Arguments[Decider])) => UsageError
        /\ (Decider # 0 /\ IsHelp(Arguments[Decider])) => UsageHelp
        /\ (Decider # 0 /\ IsSecondAction(Decider)) =>
              /\ cli.pc = "returned" /\ cli.err # NilErr
              /\ cli.errWrites = 0 /\ cli.outWrites = 0 /\ out[1] = <<>>
        /\ (Decider = 0 /\ ~HasAction) => UsageError

\* An unknown argument, found after an action and before a --help.
C27_Witness ==
    /\ ValidCli /\ UsageError
    /\ Len(Arguments) = 3 /\ IsAction(Arguments[1])
    /\ IsUnknown(Arguments[2]) /\ IsHelp(Arguments[3])
    /\ cli.err = <<"parsing arguments", "unknown argument">>

\* A second action argument follows a first one.
TwoActions == \E n \in 1..Len(Arguments) : IsSecondAction(n)
\* The first action argument.
FirstAction ==
    Arguments[CHOOSE n \in 1..Len(Arguments) :
                 IsAction(Arguments[n]) /\ ~IsSecondAction(n)][1]

\* C28 as stated: with two action arguments Run returns an error and runs no
\* action.
C28_OneActionOnly ==
    (ValidCli /\ RunDecided /\ TwoActions) =>
        /\ cli.pc = "returned" /\ cli.err # NilErr
        /\ NoActionRun

\* C28, amended: with two action arguments Run runs no action and the action it
\* chose is never the later one; it returns an error, unless a --help stands
\* before the second action and before any unknown argument: then it returns nil
\* with the usage written to Output.
C28_OneActionOrHelp ==
    (ValidCli /\ RunDecided /\ TwoActions) =>
        /\ cli.pc = "returned" /\ NoActionRun
        /\ cli.cfgFile = NoFile /\ NoInputRead
        /\ cli.action \in {"", "help", FirstAction}
        /\ IF IsHelp(Arguments[Decider]) THEN UsageHelp ELSE cli.err # NilErr

\* compress, then decompress: the error, and compress still the action.
C28_Witness ==
    /\ ValidCli /\ cli.pc = "returned"
    /\ Len(Arguments) >= 2 /\ Arguments[1] = <<ActionCompress>>
    /\ Arguments[2] = <<ActionDecompress>>
    /\ cli.action = ActionCompress
    /\ cli.err = <<"parsing arguments", "action already specified">>

\* runAction is past selectUserInput.
InputSelected ==
    \/ cli.pc \in {"client", "copy"}
    \/ cli.pc = "returned" /\ cli.cfgFile.st \in {"absent", "ok"}

ConfigRead == cli.cfgFile # NoFile

\* C30: a missing configuration file is no error and leaves the format as the
\* arguments and the environment gave it; a file that cannot be read or is not
\* valid YAML makes Run return the error of reading the configuration before any
\* input is opened or read and before any client is made.
C30_ConfigFile ==
    (ValidCli /\ ConfigRead) =>
        /\ cli.cfgFile.st = "absent" =>
              /\ ~(cli.err # NilErr /\ Head(cli.err) = "reading configuration")
              /\ cli.format = IF LastOf("--format") # 0
                              THEN Arguments[LastOf("--format")][2] ELSE cli.env
        /\ cli.cfgFile.st \in {"unreadable", "invalid"} =>
              /\ cli.pc = "returned"
              /\ cli.err # NilErr /\ Head(cli.err) = "reading configuration"
              /\ NoInputRead /\ NoActionRun

\* A file that is not valid YAML, with an Input waiting and an action chosen.
C30_Witness ==
    /\ cli.pc = "returned" /\ cli.cfgFile.st = "invalid"
    /\ cli.Input = "stream" /\ cli.action = ActionCompress
    /\ cli.configPath = OtherConfigPath
    /\ cli.err = <<"reading configuration", "decoding config from file", "yaml">>

\* The Cli made a client and called it.
ActionCalled == configs # <<>> /\ client # NilClient /\ sc # NoCalls
\* The output stream has ended and every byte written to it was read.
CopyComplete ==
    /\ pipe[OutOp(1)].closed /\ ~pipe[OutOp(1)].busy /\ pipe[OutOp(1)].wr = <<>>
    /\ rerr[1] = NilErr

\* C31: runAction has received from errCh only when the output stream was copied
\* to its end without an error; Run returns nil from an action only when the copy
\* ended without an error and nil was received, with every byte read written to
\* Output; and an error received after a complete copy is the error Run returns,
\* wrapped as the failure of the action.
C31_ReceiveAfterCopy ==
    ActionCalled =>
        /\ got[OutOp(1)] # <<>> => CopyComplete /\ cli.chunk = <<>>
        /\ (cli.pc = "returned" /\ cli.err = NilErr) =>
              /\ CopyComplete /\ got[OutOp(1)] = <<NilErr>>
              /\ cli.Output = "buffer" => out[1] # <<>> \/ FirstInput(1) = <<>>
        /\ (cli.pc = "returned" /\ got[OutOp(1)] # <<>> /\ got[OutOp(1)] # <<NilErr>>) =>
              cli.err = Wrap("running action", got[OutOp(1)][1])

\* Decompress of testData with the default format: the copy ends at once and the
\* error of the constructor is received and returned.
C31_Witness ==
    /\ ActionCalled /\ cli.pc = "returned" /\ cli.action = ActionDecompress
    /\ client.decompressor = "gzip" /\ cli.input = "stream"
    /\ CopyComplete
    /\ Head(cli.err) = "running action" /\ ErrorsIs(cli.err, ErrGzHeader)

\* The first --help argument, 0 when there is none.
FirstHelp ==
    LET at == {n \in 1..Len(Arguments) : IsHelp(Arguments[n])}
    IN  IF at = {} THEN 0 ELSE CHOOSE n \in at : \A m \in at : n <= m
\* The value stored for the flag by the arguments before argument h, none
\* standing for the setting before parseArgs.
StoredBefore(flag, h, none) ==
    LET at == {n \in 1..(h - 1) : IsValueOf(Arguments[n], flag)}
    IN  IF at = {} THEN none
        ELSE Arguments[CHOOSE n \in at : \A m \in at : m <= n][2]
\* An argument after the first --help is unknown or an action after an action.
InvalidAfterHelp ==
    \E n \in (FirstHelp + 1)..Len(Arguments) :
        \/ IsUnknown(Arguments[n])
        \/ IsAction(Arguments[n]) /\ \E m \in 1..(n - 1) : IsAction(Arguments[m])

\* C36: when the first --help comes before every unknown argument and every
\* second action, Run returns nil with the help action selected, the usage
\* written to Output once, the settings those of the arguments before --help,
\* and no configuration file, no input and no client touched, whatever follows
\* --help; when an unknown argument or a second action comes before the first
\* --help, Run returns an error of parsing and help is not selected.
C36_HelpStopsParsing ==
    (ValidCli /\ RunDecided /\ HasHelp) =>
        IF Decider = FirstHelp
        THEN /\ UsageHelp /\ cli.action = "help"
             /\ cli.cfgFile = NoFile /\ NoInputRead /\ NoActionRun
             /\ cli.format = StoredBefore("--format", FirstHelp, cli.env)
             /\ cli.configPath = StoredBefore("--config", FirstHelp, DefaultConfigPath)
             /\ cli.inputPath = StoredBefore("--input", FirstHelp, <<>>)
        ELSE /\ cli.pc = "returned" /\ cli.err # NilErr
             /\ Head(cli.err) = "parsing arguments"
             /\ cli.action # "help" /\ cli.outWrites = 0
             /\ cli.cfgFile = NoFile /\ NoInputRead /\ NoActionRun

\* Run returned nil with an invalid argument after --help.
C36_Witness ==
    /\ ValidCli /\ cli.pc = "returned" /\ HasHelp /\ Decider = FirstHelp
    /\ InvalidAfterHelp
    /\ cli.err = NilErr /\ cli.outWrites = 1

\* The text after the first "=" of the argument, as the user wrote it.
Written(arg) ==
    LET RECURSIVE Join(_)
        Join(ps) == IF Len(ps) = 1 THEN Head(ps)
                    ELSE Head(ps) \o <<"=">> \o Join(Tail(ps))
    IN  Join(Tail(arg))

\* C39: parseArgs over one argument that starts with --format=, --config= or
\* --input= stores all that follows the first "=" in the matching setting,
\* leaves the two other settings as they were and returns no error; over any
\* other argument that is neither --help nor an action it changes no setting,
\* writes the usage and returns the error of an unknown argument.
C39_ValueStored ==
    [][cli.pc = "args" =>
         LET arg == cli.Args[2] IN
         IF IsValue(arg)
         THEN /\ cli'.err = NilErr /\ cli'.errWrites = 0
              /\ cli'.format = IF IsValueOf(arg, "--format") THEN Written(arg)
                               ELSE cli.format
              /\ cli'.configPath = IF IsValueOf(arg, "--config") THEN Written(arg)
                                   ELSE cli.configPath
              /\ cli'.inputPath = IF IsValueOf(arg, "--input") THEN Written(arg)
                                  ELSE cli.inputPath
         ELSE /\ cli'.err = <<"unknown argument">> /\ cli'.errWrites = 1
              /\ cli'.format = cli.format
              /\ cli'.configPath = cli.configPath
              /\ cli'.inputPath = cli.inputPath]_vars

\* How far a goroutine of Compress is, from where it is and how its copy ended:
\* 1 copying, 2 in compressor.Close(), 3 before its Close of the write end,
\* 4 before its send, 5 after it.
StepOf(b, d) ==
    CASE b = "done" -> 5
      [] b = "dep" -> 4
      [] b = "pclose" -> 3
      [] d.st = "ok" -> 2
      [] OTHER -> 1
\* What the goroutine of a Compress of input d over the client writes in all.
Compressed(d) == IF client.compressor = "gzip" THEN GzipBytes(d) ELSE d
\* The goroutine of Compress i is about to close the write end itself: the copy
\* and compressor.Close() returned nil, no Write is pending, the compressor holds
\* nothing, and a caller that drains, while the context has not fired, has read
\* all the compressed bytes.
BeforePipeClose(i) ==
    bg[i] = "pclose" =>
        /\ drain[i] = EndedOk /\ clo[i] = EndedOk
        /\ ~pipe[i].busy /\ pipe[i].wr = <<>>
        /\ client.compressor = "gzip" => zw[i].hdr /\ zw[i].buf = <<>>
        /\ (sc.shape = "compress" /\ BuiltIn /\ sc.mode = "drain" /\ ~cancelled) =>
              out[TripOf(i)] = Compressed(sc.data[TripOf(i)])

\* C32: the goroutine of Compress never steps back in the order copy,
\* compressor.Close(), Close of the write end, send; compressor.Close() ends
\* once and only after the copy returned nil; the write end is closed by the
\* close of the compressor or by the goroutine's own Close after it and by
\* nothing else; before the goroutine's own Close every byte the compressor
\* wrote, the ones of its Close included, was read from the pipe; and the send
\* is the last step.
C32_CompressOrder ==
    [][\A i \in Ops : IsCompress(i) =>
          /\ StepOf(bg'[i], drain'[i]) >= StepOf(bg[i], drain[i])
          /\ clo[i] # NotEnded => clo'[i] = clo[i]
          /\ clo'[i] # clo[i] => drain[i] = EndedOk /\ StepOf(bg[i], drain[i]) = 2
          /\ pipe'[i].ncl # pipe[i].ncl =>
                /\ StepOf(bg[i], drain[i]) \in {2, 3}
                /\ pipe'[i].closed /\ ~pipe[i].busy
          /\ (bg[i] = "pclose" /\ bg'[i] # "pclose") =>
                bg'[i] = "dep" /\ pipe'[i].ncl = pipe[i].ncl + 1
          /\ BeforePipeClose(i)'
          /\ ndep'[i] # ndep[i] =>
                bg[i] = "dep" /\ bg'[i] = "done" /\ ndep'[i] = 1]_vars

\* A Compress into gzip has sent nil: its goroutine went through every step.
C32_Witness ==
    /\ sc.shape = "compress" /\ client.compressor = "gzip" /\ sc.data[1] # <<>>
    /\ bg[Comp(1)] = "done" /\ Deposited(Comp(1)) = <<NilErr>>
    /\ drain[Comp(1)] = EndedOk /\ clo[Comp(1)] = EndedOk
    /\ pipe[Comp(1)].closed /\ pipe[Comp(1)].ncl = 1
    /\ out[1] = GzipBytes(sc.data[1])

\* C33: errCh never holds more than one value and gets one value at most per
\* call, sent by the goroutine as its last step or by Decompress itself when the
\* constructor failed; a goroutine that is about to send can send at once,
\* wherever the caller is, and has ended once it has sent.
C33_SendNeverBlocks ==
    \A i \in Ops :
        /\ Len(slot[i]) <= 1 /\ ndep[i] <= 1
        /\ Len(slot[i]) + Len(got[i]) = ndep[i]
        /\ bg[i] = "dep" => ndep[i] = 0 /\ ENABLED Deposit(i)
        /\ bg[i] = "done" <=> (ndep[i] = 1 /\ ~ctorfail[i])
        /\ ctorfail[i] => ndep[i] = 1 /\ bg[i] = "idle"

\* A round trip whose caller stopped at the context's error of its Read and
\* never receives: both goroutines have sent and ended, and both values stay on
\* their errCh.
C33_Witness ==
    /\ sc.shape = "roundtrip" /\ cancelled /\ cpc[1] = "done"
    /\ rerr[1] = <<ErrCanceled>>
    /\ \A i \in {Comp(1), Decomp(1)} :
          bg[i] = "done" /\ Len(slot[i]) = 1 /\ got[i] = <<>>

\* The goroutine of call i, whose output nobody reads, waits in a Write of the
\* pipe with bytes of an input that never ends.
WriteUnread(i) ==
    /\ sc.mode = "none" /\ EndlessInput
    /\ i \in ActiveOps /\ i = OutOp(TripOf(i))
    /\ bg[i] = "wr" /\ pipe[i].busy /\ pipe[i].wr # <<>>

\* C34: while the context has not fired, a goroutine whose Write nobody reads
\* can take no step and no call on the endless input has sent on errCh; once
\* the context has fired, the goroutine waiting in that Write ends, and errCh
\* gets one error, which wraps the context's error.
C34_BlockedUntilCancel ==
    /\ [](\A i \in Ops :
            (WriteUnread(i) /\ ~cancelled) =>
                /\ ~ENABLED BgStep(i)
                /\ \A j \in ActiveOps : ndep[j] = 0 /\ bg[j] # "done")
    /\ \A i \in Ops :
          (WriteUnread(i) /\ cancelled) ~>
              /\ bg[i] = "done" /\ ndep[i] = 1
              /\ Deposited(i)[1] # NilErr
              /\ ErrorsIs(Deposited(i)[1], ErrCanceled)

\* The Write nobody read was given up at the cancellation: its bytes are still
\* in the pipe, the goroutine has ended and errCh holds the context's error.
C34_Witness ==
    /\ sc.mode = "none" /\ EndlessInput /\ cancelled /\ sc.shape = "compress"
    /\ bg[Comp(1)] = "done"
    /\ pipe[Comp(1)].busy /\ pipe[Comp(1)].wr # <<>>
    /\ slot[Comp(1)] # <<>> /\ ErrorsIs(slot[Comp(1)][1], ErrCanceled)

\* Decompress k is in gzip.NewReader, which holds no byte, and reads the output
\* of Compress k, which has no byte to give and is open.
AwaitsHeader(k) ==
    /\ cpc[k] = "ctor" /\ client.decompressor = "gzip"
    /\ zr[Decomp(k)].buf = <<>>
    /\ FromPipe(Decomp(k)) /\ NoData(Comp(k))

\* C35: the goroutine of Decompress is started only once the constructor has
\* succeeded, and Decompress returns only then or after sending the
\* constructor's error; with gzip the constructor has then taken the header
\* from the input or failed on it. A Decompress that waits for the header on
\* the output of a Compress, the context live, cannot go on by itself, nor
\* can its caller; it has returned from a gzip Compress under a live context
\* only after the goroutine of that Compress wrote the header.
C35_ConstructorInCaller ==
    \A k \in ActiveTrips : HasDecomp(k) =>
        LET d == Decomp(k) IN
        /\ ~returned[d] => bg[d] = "idle"
        /\ bg[d] # "idle" => returned[d] /\ ~ctorfail[d]
        /\ (returned[d] /\ client.decompressor = "gzip") =>
              IF ctorfail[d]
              THEN /\ zr[d].st = "hdr" /\ ndep[d] = 1
                   /\ Head(Deposited(d)[1]) = "creating decompressor"
              ELSE zr[d].st # "hdr"
        /\ (AwaitsHeader(k) /\ ~cancelled) =>
              /\ ~ENABLED CallerStep(k)
              /\ bg[Comp(k)] # "idle"
        /\ (returned[d] /\ FromPipe(d) /\ ~cancelled
               /\ client.decompressor = "gzip" /\ client.compressor = "gzip") =>
              zw[Comp(k)].hdr /\ ~ctorfail[d]

\* The round trip through gzip: Decompress has returned with the header read
\* while the goroutine of Compress, which wrote it, is still at work.
C35_Witness ==
    /\ sc.shape = "roundtrip" /\ BuiltIn /\ client.decompressor = "gzip"
    /\ ~cancelled /\ returned[Decomp(1)] /\ ~ctorfail[Decomp(1)]
    /\ zr[Decomp(1)].st = "body" /\ zw[Comp(1)].hdr
    /\ bg[Comp(1)] \notin {"idle", "dep", "done"}
    /\ out[1] = <<>>

\* C37: the process exits with 0 exactly when cli.Run returned nil and with 1,
\* the error written to os.Stderr, when it returned an error; the context of
\* cli.Run is done only when a signal was received and the goroutine of
\* signalContext took it, and while the process runs with a signal received
\* and the context not done, that goroutine can cancel at once.
C37_ExitCodeAndSignals ==
    /\ proc.pc = "exited" =>
          /\ cli.pc = "returned"
          /\ proc.code \in {0, 1}
          /\ proc.code = 0 <=> cli.err = NilErr
          /\ proc.stderr = proc.code
    /\ proc.pc = "running" => proc.code = 0 - 1 /\ proc.stderr = 0
    /\ cancelled => proc.nsig >= 1 /\ proc.gor = "done"
    /\ proc.nsig = 0 => ~cancelled /\ proc.sigs = <<>> /\ proc.gor = "wait"
    /\ (proc.pc = "running" /\ proc.nsig >= 1 /\ ~cancelled) =>
          ENABLED SignalCancel

\* A signal cancelled the context while compress copied to the standard
\* output: cli.Run returned the context's error and the process exited with 1.
C37_Witness ==
    /\ proc.pc = "exited" /\ proc.code = 1 /\ proc.nsig >= 1 /\ cancelled
    /\ cli.action = ActionCompress
    /\ ErrorsIs(cli.err, ErrCanceled)

\* C38: once ContextWithDeadline has returned, t.Helper was called once and one
\* function was given to t.Cleanup; for a test with a deadline the context has
\* a deadline, a multiple of the grace period that is not after the test's and
\* less than a grace period before it, and the context is done from then on;
\* for a test without one the context has none and is done only once the
\* cleanup ran, as cancelled.
C38_ContextWithDeadline ==
    /\ tt.pc = "test" => tt.helper = 0 /\ tt.cleanups = 0 /\ ~tt.done
    /\ tt.pc \in {"called", "ended"} =>
          /\ tt.helper = 1 /\ tt.cleanups = 1
          /\ tt.pc = "ended" => tt.done
          /\ IF tt.ok
             THEN /\ tt.ctxHasDeadline
                  /\ tt.ctxDeadline <= tt.deadline
                  /\ tt.deadline - tt.ctxDeadline < timeoutGracePeriod
                  /\ tt.ctxDeadline % timeoutGracePeriod = 0
                  /\ tt.ctxDeadline <= tt.now => tt.done
                  /\ (tt.done /\ tt.pc = "called") => tt.cause = "deadline exceeded"
             ELSE /\ ~tt.ctxHasDeadline
                  /\ tt.done <=> tt.pc = "ended"
                  /\ tt.done => tt.cause = "canceled"

\* The deadline of the context is earlier than that of the test, and the
\* context ended at it while the test went on.
C38_Witness ==
    /\ tt.pc = "called" /\ tt.ok
    /\ tt.ctxDeadline < tt.deadline /\ tt.ctxDeadline > 0
    /\ tt.done /\ tt.cause = "deadline exceeded" /\ tt.now < tt.deadline


====
